---- MODULE Spec2Model ----
(***************************************************************************)
(* A model of drawtime: the parser of timing diagram descriptions          *)
(* (src/parse.py), the diagram structs (src/model.py), the Qt renderer     *)
(* (src/render.py) and the editor window (src/gui.py).                     *)
(*                                                                         *)
(* Text is a sequence of lines.  A line is a record that keeps what the    *)
(* parser looks at: whether it is blank, a comment, a block header (it     *)
(* ends with a colon) or a body line, and the tokens around its operator.  *)
(* Numbers are written as tokens and converted by tables (int, float,      *)
(* ast.literal_eval), so that a token the conversion rejects is rejected   *)
(* in the model as well.                                                   *)
(*                                                                         *)
(* A record lists its fields in the order in which the names first occur   *)
(* in this module, which is the order TLC keeps them in.                   *)
(***************************************************************************)
EXTENDS Integers, Sequences, FiniteSets, TLC

VARIABLES
    code,          \* the text handed to parseTimingDescription (under
                   \* SpecModel: the constructor call to evaluate)
    result,        \* the outcome of the last parseTimingDescription(code)
                   \* (under SpecModel: of the constructor call; under
                   \* SpecEditor: of parseTimingDescription, by text)
    renderer,      \* the fields of the Renderer instance
    painter,       \* renderer.painter: whether it is active, what it drew,
                   \* how often it has begun
    diagram,       \* the diagram object last handed to Renderer.draw
    outcome,       \* how the last Renderer call ended
    saved,         \* what the last Renderer.save wrote
    drawn,         \* whether a Renderer.draw call has returned normally
    expansion,     \* the locals of _clockToLine while its loop runs
    editor         \* the fields of the Editor window and of its actions

vars ==
    <<code, result, renderer, painter, diagram, outcome, saved, drawn,
      expansion, editor>>

-----------------------------------------------------------------------------
(* Bounds.                                                                 *)

\* The longest text typed into the parser, in lines.
MaxLines == 4

\* The most signal blocks of a rendered description.
MaxSignals == 2

\* The calls of Renderer.draw made on one Renderer.
MaxDraws == 2

\* The most change lines of a signal block of a text of changes.
MaxChanges == 2

-----------------------------------------------------------------------------
(* Values.  Python values of different types meet in one place (a signal   *)
(* value is 0, 1, None, UNKNOWN or a string), so they are tagged.          *)

None == [t |-> "None"]
UNKNOWN == [t |-> "UNKNOWN"]
IntV(n) == [t |-> "int", v |-> n]
\* A str: the sequence of its characters.
StrV(s) == [t |-> "str", s |-> s]

\* A float: a fraction num/den (duty = 0.25 is 1/4).
FloatV(n, d) == [t |-> "float", num |-> n, den |-> d]

NoException == [exc |-> "None"]
Raise(exception) == [exc |-> exception]

\* raise TimingSyntaxError(error_type, numbered_line)
TimingSyntaxError(error_type, numbered_line) ==
    [exc |-> "TimingSyntaxError", error_type |-> error_type,
     line_number |-> numbered_line.number, line |-> numbered_line.line]

-----------------------------------------------------------------------------
(* Lines of text.                                                          *)

Blank == [kind |-> "blank"]
Comment == [kind |-> "comment"]
\* "block_type args:"; Header("", <<>>) is the line ":".
Header(block_type, block_args) ==
    [kind |-> "header", block_type |-> block_type, block_args |-> block_args]
\* "lhs op rhs" with op "=" or "->"; op "" is a line with neither.
Body(lhs, op, rhs) == [kind |-> "body", lhs |-> lhs, op |-> op, rhs |-> rhs]

\* int(raw): the tokens int() accepts, with their values.
IntLiterals ==
    { <<"0", 0>>, <<"1", 1>>, <<"2", 2>>, <<"4", 4>>, <<"5", 5>>, <<"10", 10>>,
      <<"-10", 0 - 10>>, <<"30", 30>>, <<"500", 500>> }

\* float(raw): the tokens float() accepts beyond those of int().
FloatLiterals ==
    { <<"0.25", FloatV(1, 4)>>, <<"0.5", FloatV(1, 2)>>, <<"0.75", FloatV(3, 4)>>,
      <<"5.0", FloatV(5, 1)>> }

\* ast.literal_eval(raw) of a quoted string.
StringLiterals ==
    { <<"'x'", <<"x">> >>, <<"'!y'", <<"!", "y">> >>,
      <<"'x/!y'", <<"x", "/", "!", "y">> >> }

\* Tokens that are no Python literal but parse as an expression (a bare
\* name): ast.literal_eval raises ValueError('malformed node or string').
BareWords == { "foo", "start", "Z1" }

\* The tokens the colour pattern ^[0-9a-f]{6}$ matches, with int(value, 16).
ColorLiterals == { <<"ffffff", 16777215>>, <<"000000", 0>>, <<"0000ff", 255>> }

Lookup(table, raw) == (CHOOSE p \in table : p[1] = raw)[2]
Has(table, raw) == \E p \in table : p[1] = raw

-----------------------------------------------------------------------------
(* Floats, as fractions in lowest terms with a positive denominator.       *)

RECURSIVE Gcd(_, _)
Gcd(a, b) == IF b = 0 THEN a ELSE Gcd(b, a % b)

Abs(n) == IF n < 0 THEN 0 - n ELSE n

Lowest(n, d, g) ==
    IF d < 0 THEN FloatV((0 - n) \div g, (0 - d) \div g)
    ELSE FloatV(n \div g, d \div g)

Frac(n, d) == Lowest(n, d, Gcd(Abs(n), Abs(d)))

R(n) == FloatV(n, 1)
Add(a, b) == Frac(a.num * b.den + b.num * a.den, a.den * b.den)
Neg(a) == FloatV(0 - a.num, a.den)
Sub(a, b) == Add(a, Neg(b))
Mul(a, b) == Frac(a.num * b.num, a.den * b.den)
Div(a, b) == Frac(a.num * b.den, a.den * b.num)
Lt(a, b) == a.num * b.den < b.num * a.den
Le(a, b) == a.num * b.den <= b.num * a.den
Min(a, b) == IF Lt(b, a) THEN b ELSE a
Max(a, b) == IF Lt(a, b) THEN b ELSE a

\* Python's a % b on floats, b # 0: the result has the sign of b.
ModOver(n, d, den) ==
    IF d > 0 THEN Frac(n % d, den)
    ELSE Frac(0 - ((0 - n) % (0 - d)), den)

Mod(a, b) == ModOver(a.num * b.den, b.num * a.den, a.den * b.den)

-----------------------------------------------------------------------------
(* src/model.py                                                            *)

\* TimingDiagram.__init__, whose margin check is "margin > width / 2".
TimingDiagram(width, height, margin, font_size, font_family, background, foreground, start, end, step, delay, signals) ==
    IF 2 * margin > width \/ 2 * margin > height
    THEN Raise("ValueError")
    ELSE [exc |-> "None",
          value |-> [width |-> width, height |-> height, margin |-> margin,
                     font_size |-> font_size, font_family |-> font_family,
                     background |-> background, foreground |-> foreground,
                     start |-> start, end |-> end, step |-> step,
                     delay |-> delay, signals |-> signals]]

\* TimingDiagram() with the defaults of its signature.
DefaultDiagram ==
    TimingDiagram(800, 600, 20, 12, "Times New Roman", 16777215, 0,
                  0, 100, None, 10, <<>>)

\* sorted(changes.items()): the pairs in ascending order of time.
RECURSIVE Insert(_, _)
Insert(sorted, item) ==
    IF sorted = <<>> THEN <<item>>
    ELSE IF Lt(item[1], sorted[1][1]) THEN <<item>> \o sorted
    ELSE <<sorted[1]>> \o Insert(Tail(sorted), item)

RECURSIVE Sorted(_)
Sorted(items) ==
    IF items = <<>> THEN <<>>
    ELSE Insert(Sorted(SubSeq(items, 1, Len(items) - 1)), items[Len(items)])

Times(changes) == { changes[i][1] : i \in DOMAIN changes }

\* Line.__init__ with the changes kept in the order of the dictionary.
LineInsertionOrder(name, start, changes) ==
    IF start \notin {IntV(0), IntV(1), UNKNOWN, None}
    THEN Raise("TypeError")
    ELSE IF \E i \in DOMAIN changes :
                changes[i][2] \notin {IntV(0), IntV(1), None}
    THEN Raise("TypeError")
    ELSE IF Cardinality(Times(changes)) # Len(changes)
    THEN Raise("ValueError")
    ELSE [exc |-> "None",
          value |-> [start |-> start, changes |-> changes,
                     name |-> name, type |-> "Line"]]

\* Line.__init__: the changes become an OrderedDict in ascending time order.
Line(name, start, changes) ==
    IF start \notin {IntV(0), IntV(1), UNKNOWN, None}
    THEN Raise("TypeError")
    ELSE IF \E i \in DOMAIN changes :
                changes[i][2] \notin {IntV(0), IntV(1), None}
    THEN Raise("TypeError")
    ELSE IF Cardinality(Times(changes)) # Len(changes)
    THEN Raise("ValueError")
    ELSE [exc |-> "None",
          value |-> [start |-> start, changes |-> Sorted(changes),
                     name |-> name, type |-> "Line"]]

\* Bus.__init__: no check of the values.
Bus(name, start, changes) ==
    IF Cardinality(Times(changes)) # Len(changes)
    THEN Raise("ValueError")
    ELSE [exc |-> "None",
          value |-> [start |-> start, changes |-> Sorted(changes),
                     name |-> name, type |-> "Bus"]]

\* Clock.__init__: "if not 0 < duty < 1: raise ValueError".
Clock(name, offset, length, duty) ==
    IF ~(Lt(R(0), duty) /\ Lt(duty, R(1)))
    THEN Raise("ValueError")
    ELSE [exc |-> "None",
          value |-> [name |-> name, type |-> "Clock", offset |-> offset,
                     length |-> length, duty |-> duty]]

-----------------------------------------------------------------------------
(* src/parse.py                                                            *)

TIME_PROPERTIES == {"start", "end", "step", "delay"}

\* STYLE_PROPERTIES: the type of each style property.
STYLE_PROPERTIES ==
    [p \in {"width", "height", "margin", "font_size", "font_family",
            "background", "foreground"} |->
        IF p \in {"width", "height", "margin", "font_size"} THEN "number"
        ELSE IF p = "font_family" THEN "string" ELSE "color"]

SIGNAL_PROPERTIES ==
    [k \in {"clock", "line", "bus"} |->
        IF k = "clock" THEN {"length", "offset", "duty"} ELSE {"start"}]

\* The lines numbered after the empty lines and the comments are dropped.
NumberedLinesDropped(lines, number) ==
    LET kept == SelectSeq(lines, LAMBDA l : l.kind \notin {"blank", "comment"})
    IN  [i \in 1 .. Len(kept) |-> [number |-> i, line |-> kept[i]]]

\* The first two lines of parseTimingDescription: strip every line, number
\* the lines from 1, and drop the empty lines and the comments.
RECURSIVE NumberedLines(_, _)
NumberedLines(lines, number) ==
    IF number > Len(lines) THEN <<>>
    ELSE (IF lines[number].kind \in {"blank", "comment"} THEN <<>>
          ELSE << [number |-> number, line |-> lines[number]] >>)
         \o NumberedLines(lines, number + 1)

\* The list current_block refers to: time_lines, style_lines or the lines
\* of the signal block added last.
CurrentLines(st) ==
    IF st.current_block = "time" THEN st.time_lines
    ELSE IF st.current_block = "style" THEN st.style_lines
    ELSE st.signal_blocks[Len(st.signal_blocks)].lines

\* One iteration of the loop of _exractBlocks.
ExtractLine(st, numbered_line) ==
    LET line == numbered_line.line
        fail(error_type) ==
            [st EXCEPT !.exc = TimingSyntaxError(error_type, numbered_line)]
    IN  IF line.kind = "header"
        THEN IF st.current_block # "None" /\ CurrentLines(st) = <<>>
             THEN fail("empty_block")
             ELSE IF line.block_type = "" THEN fail("orphan_colon")
             ELSE IF line.block_type = "time"
             THEN IF line.block_args # <<>> THEN fail("time_args")
                  ELSE [st EXCEPT !.current_block = "time"]
             ELSE IF line.block_type = "style"
             THEN IF line.block_args # <<>> THEN fail("style_args")
                  ELSE [st EXCEPT !.current_block = "style"]
             ELSE IF line.block_type \in {"clock", "line", "bus"}
             THEN IF line.block_args = <<>> THEN fail("signal_args")
                  ELSE [st EXCEPT
                          !.current_block = "signal",
                          !.signal_blocks = Append(@,
                              [name |-> line.block_args[1],
                               type |-> line.block_type,
                               lines |-> <<>>])]
             ELSE fail("unknown_block")
        ELSE IF st.current_block = "None" THEN fail("orphan_line")
        ELSE IF st.current_block = "time"
        THEN [st EXCEPT !.time_lines = Append(@, numbered_line)]
        ELSE IF st.current_block = "style"
        THEN [st EXCEPT !.style_lines = Append(@, numbered_line)]
        ELSE [st EXCEPT !.signal_blocks[Len(st.signal_blocks)].lines =
                            Append(@, numbered_line)]

RECURSIVE ExtractLoop(_, _, _)
ExtractLoop(st, numbered_lines, i) ==
    IF i > Len(numbered_lines) \/ st.exc.exc # "None" THEN st
    ELSE ExtractLoop(ExtractLine(st, numbered_lines[i]), numbered_lines, i + 1)

\* _exractBlocks: the time lines, the style lines and the signal blocks, or
\* the first grouping error.
_exractBlocks(numbered_lines) ==
    LET st == ExtractLoop([exc |-> NoException, current_block |-> "None",
                           time_lines |-> <<>>, style_lines |-> <<>>,
                           signal_blocks |-> <<>>],
                          numbered_lines, 1)
    IN  IF st.exc.exc # "None" THEN st
        ELSE IF st.current_block # "None" /\ CurrentLines(st) = <<>>
        THEN [st EXCEPT !.exc = TimingSyntaxError("empty_block",
                                    numbered_lines[Len(numbered_lines)])]
        ELSE st

\* _splitLine with the change operator never allowed.
_splitLineAssignment(numbered_line, allow_change) ==
    IF numbered_line.line.op # "="
    THEN TimingSyntaxError("malformed_line", numbered_line)
    ELSE [exc |-> "None", lhs |-> numbered_line.line.lhs, op |-> "=",
          rhs |-> numbered_line.line.rhs]

\* _splitLine: the LHS, the operator and the RHS of a line.
_splitLine(numbered_line, allow_change) ==
    LET line == numbered_line.line
        delimiter == IF allow_change /\ line.op = "->" THEN "->" ELSE "="
    IN  IF line.op # delimiter
        THEN TimingSyntaxError("malformed_line", numbered_line)
        ELSE [exc |-> "None", lhs |-> line.lhs, op |-> delimiter,
              rhs |-> line.rhs]

\* _parseNumber(raw, int, ...)
_parseInt(raw, numbered_line) ==
    IF Has(IntLiterals, raw)
    THEN [exc |-> "None", value |-> Lookup(IntLiterals, raw)]
    ELSE TimingSyntaxError("bad_int", numbered_line)

\* _parseNumber(raw, float, ...)
_parseFloat(raw, numbered_line) ==
    IF Has(IntLiterals, raw)
    THEN [exc |-> "None", value |-> R(Lookup(IntLiterals, raw))]
    ELSE IF Has(FloatLiterals, raw)
    THEN [exc |-> "None", value |-> Lookup(FloatLiterals, raw)]
    ELSE TimingSyntaxError("bad_float", numbered_line)

\* ast.literal_eval(value) inside "try: ... except SyntaxError": a string
\* literal gives a str, a number gives a non-str, a bare name raises
\* ValueError and anything else raises SyntaxError.
LiteralEval(value) ==
    IF Has(StringLiterals, value)
    THEN [exc |-> "None", value |-> StrV(Lookup(StringLiterals, value))]
    ELSE IF Has(IntLiterals, value)
    THEN [exc |-> "None", value |-> IntV(Lookup(IntLiterals, value))]
    ELSE IF Has(FloatLiterals, value)
    THEN [exc |-> "None", value |-> Lookup(FloatLiterals, value)]
    ELSE IF value \in BareWords THEN Raise("ValueError")
    ELSE Raise("SyntaxError")

_parseSignalValue(value, signal_type, numbered_line) ==
    IF signal_type = "line"
    THEN IF value \in {"1", "0"}
         THEN [exc |-> "None", value |-> IntV(Lookup(IntLiterals, value))]
         ELSE IF value = "Z" THEN [exc |-> "None", value |-> None]
         ELSE IF value = "?" THEN [exc |-> "None", value |-> UNKNOWN]
         ELSE TimingSyntaxError("line_value", numbered_line)
    ELSE IF signal_type = "bus"
    THEN IF value = "Z" THEN [exc |-> "None", value |-> None]
         ELSE IF value = "?" THEN [exc |-> "None", value |-> UNKNOWN]
         ELSE LET literal == LiteralEval(value)
              IN  IF literal.exc = "SyntaxError"
                  THEN TimingSyntaxError("bus_value", numbered_line)
                  ELSE IF literal.exc # "None" THEN literal
                  ELSE IF literal.value.t # "str"
                  THEN TimingSyntaxError("bus_value", numbered_line)
                  ELSE literal
    ELSE Raise("ValueError")

\* setattr(diagram, property, value)
SetAttr(d, property, value) == [d EXCEPT ![property] = value]

\* One iteration of the loop over style_lines in _parseBlocks.
StyleLine(d, numbered_line) ==
    LET split == _splitLine(numbered_line, FALSE)
    IN  IF split.exc # "None" THEN split
        ELSE IF split.lhs \notin DOMAIN STYLE_PROPERTIES
        THEN TimingSyntaxError("style_prop", numbered_line)
        ELSE IF STYLE_PROPERTIES[split.lhs] = "number"
        THEN LET number == _parseInt(split.rhs, numbered_line)
             IN  IF number.exc # "None" THEN number
                 ELSE [exc |-> "None",
                       value |-> SetAttr(d, split.lhs, number.value)]
        ELSE IF STYLE_PROPERTIES[split.lhs] = "color"
        THEN IF ~Has(ColorLiterals, split.rhs)
             THEN TimingSyntaxError("bad_color", numbered_line)
             ELSE [exc |-> "None",
                   value |-> SetAttr(d, split.lhs,
                                     Lookup(ColorLiterals, split.rhs))]
        ELSE [exc |-> "None", value |-> SetAttr(d, split.lhs, split.rhs)]

\* One iteration of the loop over time_lines in _parseBlocks.
TimeLine(d, numbered_line) ==
    LET split == _splitLine(numbered_line, FALSE)
    IN  IF split.exc # "None" THEN split
        ELSE IF split.lhs \notin TIME_PROPERTIES
        THEN TimingSyntaxError("time_prop", numbered_line)
        ELSE LET number == _parseInt(split.rhs, numbered_line)
             IN  IF number.exc # "None" THEN number
                 ELSE [exc |-> "None",
                       value |-> SetAttr(d, split.lhs,
                                         IF split.lhs = "step"
                                         THEN IntV(number.value)
                                         ELSE number.value)]

RECURSIVE StyleLoop(_, _, _)
StyleLoop(acc, lines, i) ==
    IF i > Len(lines) \/ acc.exc # "None" THEN acc
    ELSE StyleLoop(StyleLine(acc.value, lines[i]), lines, i + 1)

RECURSIVE TimeLoop(_, _, _)
TimeLoop(acc, lines, i) ==
    IF i > Len(lines) \/ acc.exc # "None" THEN acc
    ELSE TimeLoop(TimeLine(acc.value, lines[i]), lines, i + 1)

\* properties[target] = value
SetItem(properties, target, value) ==
    [k \in DOMAIN properties \cup {target} |->
        IF k = target THEN value ELSE properties[k]]

\* The iteration with the value of a change line parsed before its time is
\* looked up in changes.
SignalLineValueFirst(acc, signal_type, numbered_line) ==
    LET split == _splitLine(numbered_line, TRUE)
        fail(e) == [acc EXCEPT !.exc = e]
    IN  IF split.exc # "None" THEN fail(split)
        ELSE IF split.op = "->"
        THEN IF signal_type = "clock"
             THEN fail(TimingSyntaxError("clock_change", numbered_line))
             ELSE LET time == _parseFloat(split.lhs, numbered_line)
                      value == _parseSignalValue(split.rhs, signal_type,
                                                 numbered_line)
                  IN  IF time.exc # "None" THEN fail(time)
                      ELSE IF value.exc # "None" THEN fail(value)
                      ELSE IF time.value \in Times(acc.changes)
                      THEN fail(TimingSyntaxError("change_dupe",
                                                  numbered_line))
                      ELSE IF signal_type = "line" /\ value.value = UNKNOWN
                      THEN fail(TimingSyntaxError("line_unknown",
                                                  numbered_line))
                      ELSE [acc EXCEPT !.changes =
                               Append(@, <<time.value, value.value>>)]
        ELSE IF split.lhs \notin SIGNAL_PROPERTIES[signal_type]
        THEN fail(TimingSyntaxError("signal_prop", numbered_line))
        ELSE LET value == IF split.lhs = "start"
                          THEN _parseSignalValue(split.rhs, signal_type,
                                                 numbered_line)
                          ELSE _parseFloat(split.rhs, numbered_line)
             IN  IF value.exc # "None" THEN fail(value)
                 ELSE [acc EXCEPT !.properties =
                          SetItem(@, split.lhs, value.value)]

\* One iteration of the loop over the lines of a signal block: acc holds
\* the dictionaries properties and changes.
SignalLine(acc, signal_type, numbered_line) ==
    LET split == _splitLine(numbered_line, TRUE)
        fail(e) == [acc EXCEPT !.exc = e]
    IN  IF split.exc # "None" THEN fail(split)
        ELSE IF split.op = "->"
        THEN IF signal_type = "clock"
             THEN fail(TimingSyntaxError("clock_change", numbered_line))
             ELSE LET time == _parseFloat(split.lhs, numbered_line)
                      value == _parseSignalValue(split.rhs, signal_type,
                                                 numbered_line)
                  IN  IF time.exc # "None" THEN fail(time)
                      ELSE IF time.value \in Times(acc.changes)
                      THEN fail(TimingSyntaxError("change_dupe",
                                                  numbered_line))
                      ELSE IF value.exc # "None" THEN fail(value)
                      ELSE IF signal_type = "line" /\ value.value = UNKNOWN
                      THEN fail(TimingSyntaxError("line_unknown",
                                                  numbered_line))
                      ELSE [acc EXCEPT !.changes =
                               Append(@, <<time.value, value.value>>)]
        ELSE IF split.lhs \notin SIGNAL_PROPERTIES[signal_type]
        THEN fail(TimingSyntaxError("signal_prop", numbered_line))
        ELSE LET value == IF split.lhs = "start"
                          THEN _parseSignalValue(split.rhs, signal_type,
                                                 numbered_line)
                          ELSE _parseFloat(split.rhs, numbered_line)
             IN  IF value.exc # "None" THEN fail(value)
                 ELSE [acc EXCEPT !.properties =
                          SetItem(@, split.lhs, value.value)]

RECURSIVE SignalLoop(_, _, _, _)
SignalLoop(acc, signal_type, lines, i) ==
    IF i > Len(lines) \/ acc.exc.exc # "None" THEN acc
    ELSE SignalLoop(SignalLine(acc, signal_type, lines[i]), signal_type,
                    lines, i + 1)

\* The loop body with missing_prop raised for the first line of the block.
ParseSignalFirstLine(block) ==
    LET acc == SignalLoop([exc |-> NoException, changes |-> <<>>,
                           properties |-> <<>>], block.type, block.lines, 1)
        properties == acc.properties
    IN  IF acc.exc.exc # "None" THEN acc.exc
        ELSE IF DOMAIN properties # SIGNAL_PROPERTIES[block.type]
        THEN TimingSyntaxError("missing_prop", block.lines[1])
        ELSE IF block.type = "clock"
        THEN Clock(block.name, properties["offset"], properties["length"],
                   properties["duty"])
        ELSE IF block.type = "line"
        THEN Line(block.name, properties["start"], acc.changes)
        ELSE Bus(block.name, properties["start"], acc.changes)

\* The body of the loop over signal_blocks in _parseBlocks: the signal
\* struct of one block, or the exception raised on the way.
ParseSignal(block) ==
    LET acc == SignalLoop([exc |-> NoException, changes |-> <<>>,
                           properties |-> <<>>], block.type, block.lines, 1)
        properties == acc.properties
    IN  IF acc.exc.exc # "None" THEN acc.exc
        ELSE IF DOMAIN properties # SIGNAL_PROPERTIES[block.type]
        THEN TimingSyntaxError("missing_prop", block.lines[Len(block.lines)])
        ELSE IF block.type = "clock"
        THEN Clock(block.name, properties["offset"], properties["length"],
                   properties["duty"])
        ELSE IF block.type = "line"
        THEN Line(block.name, properties["start"], acc.changes)
        ELSE Bus(block.name, properties["start"], acc.changes)

RECURSIVE SignalsLoop(_, _, _)
SignalsLoop(acc, signal_blocks, i) ==
    IF i > Len(signal_blocks) \/ acc.exc # "None" THEN acc
    ELSE LET signal == ParseSignal(signal_blocks[i])
         IN  SignalsLoop(IF signal.exc # "None" THEN signal
                         ELSE [exc |-> "None",
                               value |-> [acc.value EXCEPT !.signals =
                                             Append(@, signal.value)]],
                         signal_blocks, i + 1)

\* _parseBlocks: the style lines, then the time lines, then the signal
\* blocks, each applied to a diagram built with the defaults.
_parseBlocks(time_lines, style_lines, signal_blocks) ==
    SignalsLoop(TimeLoop(StyleLoop(DefaultDiagram, style_lines, 1),
                         time_lines, 1),
                signal_blocks, 1)

\* parseTimingDescription(code): [exc |-> "None", value |-> the diagram] or
\* the exception that escapes.
parseTimingDescription(text) ==
    LET blocks == _exractBlocks(NumberedLines(text, 1))
    IN  IF blocks.exc.exc # "None" THEN blocks.exc
        ELSE _parseBlocks(blocks.time_lines, blocks.style_lines,
                          blocks.signal_blocks)

-----------------------------------------------------------------------------
(* src/render.py                                                           *)
(*                                                                         *)
(* Every routine is an operator from the renderer's fields (self) and the  *)
(* routine's arguments to the commands it has the painter issue, the       *)
(* exception it raises and the objects it was handed as it leaves them.    *)
(* A value the code computes once and uses often is computed once here     *)
(* too, and handed on as a parameter.                                      *)

\* Exceptions of the renderer carry the place that raised them.
RaiseAt(exception, at) == [exc |-> exception, at |-> at]

\* QtCore.QRectF(left, top, width, height)
QRectF(left, top, width, height) ==
    [width |-> width, height |-> height, left |-> left, top |-> top]
Right(rect) == Add(rect.left, rect.width)
Bottom(rect) == Add(rect.top, rect.height)

\* re.sub('(^|/)!', r'\1', text): drop each "!" that opens the text or
\* follows a "/".
RECURSIVE StripMarkupFrom(_, _)
StripMarkupFrom(text, i) ==
    IF i > Len(text) THEN <<>>
    ELSE (IF text[i] = "!" /\ (i = 1 \/ text[i - 1] = "/") THEN <<>>
          ELSE <<text[i]>>) \o StripMarkupFrom(text, i + 1)

StripMarkup(text) == StripMarkupFrom(text, 1)

\* QFontMetrics(font).width(text) and .height(): the host's font metrics,
\* taken as one point size per glyph and one point size per line.
MetricsWidth(font, text) == R(Len(text) * font.size)
MetricsHeight(font) == R(font.size)

\* Renderer._getTextWidth(text) with strip_markup=True, and _getTextHeight.
_getTextWidth(font, text) == MetricsWidth(font, StripMarkup(text))
_getTextHeight(font) == MetricsHeight(font)

\* TEXT_HEIGHT = 1.2
TEXT_HEIGHT == FloatV(6, 5)

\* max(label_widths)
RECURSIVE MaxOf(_)
MaxOf(widths) ==
    IF Len(widths) = 1 THEN widths[1]
    ELSE Max(widths[1], MaxOf(Tail(widths)))

\* Renderer.__init__: no image; the other fields are set by _loadDiagram.
NewRenderer ==
    [image |-> None, _font |-> None, _diagram |-> None, _background |-> None,
     _color |-> None, _outer_frame |-> None, _inner_frame |-> None]

\* QtGui.QFont(diagram.font_family, diagram.font_size)
QFont(d) == [size |-> d.font_size, family |-> d.font_family]

\* The outer frame: the diagram less its margin on every side.
OuterFrame(d) ==
    QRectF(R(d.margin), R(d.margin), R(d.width - 2 * d.margin),
           R(d.height - 2 * d.margin))

\* [self._getTextWidth(i.name + '  ') for i in diagram.signals]
LabelWidths(d) ==
    [i \in DOMAIN d.signals |->
        _getTextWidth(QFont(d), d.signals[i].name \o <<" ", " ">>)]

\* The inner frame: the outer frame less the labels on the left and one
\* line of text on top.
InnerFrame(d, outer, widest, line_height) ==
    QRectF(Add(R(d.margin), widest), Add(R(d.margin), line_height),
           Sub(outer.width, widest), Sub(outer.height, line_height))

\* The fields _loadDiagram sets before its assertion.  The new image holds
\* no drawing yet.
Loaded(self, d) ==
    [self EXCEPT
        !.image = [width |-> d.width, height |-> d.height, pixels |-> <<>>],
        !._font = QFont(d),
        !._diagram = d,
        !._background = IntV(d.background),
        !._color = IntV(d.foreground),
        !._outer_frame = OuterFrame(d)]

\* A _loadDiagram that computes the inner frame once per Renderer and
\* keeps it.
_loadDiagramOnce(self, d) ==
    IF Len(d.signals) = 0
    THEN [exc |-> RaiseAt("AssertionError", "_loadDiagram"),
          self |-> Loaded(self, d)]
    ELSE [exc |-> NoException,
          self |-> [Loaded(self, d) EXCEPT !._inner_frame =
                       IF self._inner_frame # None THEN self._inner_frame
                       ELSE InnerFrame(d, OuterFrame(d),
                                MaxOf(LabelWidths(d)),
                                Mul(_getTextHeight(QFont(d)), TEXT_HEIGHT))]]

\* Renderer._loadDiagram: the fields after the call and the exception it
\* raised.  Every field the draw routines read is set again from d.
_loadDiagram(self, d) ==
    IF Len(d.signals) = 0
    THEN [exc |-> RaiseAt("AssertionError", "_loadDiagram"),
          self |-> Loaded(self, d)]
    ELSE [exc |-> NoException,
          self |-> [Loaded(self, d) EXCEPT !._inner_frame =
                       InnerFrame(d, OuterFrame(d), MaxOf(LabelWidths(d)),
                                  Mul(_getTextHeight(QFont(d)), TEXT_HEIGHT))]]

\* Renderer._timeDeltaToPixels, for end # start.
_timeDeltaToPixels(self, time) ==
    Mul(time, Div(self._inner_frame.width,
                  R(self._diagram.end - self._diagram.start)))

\* Renderer._timeToPixels
_timeToPixels(self, time) ==
    Min(Sub(Right(self._inner_frame), R(1)),
        Add(self._inner_frame.left,
            Max(R(0), _timeDeltaToPixels(self,
                          Sub(time, R(self._diagram.start))))))

\* int(active)
IntOf(active) == IntV(IF active THEN 1 ELSE 0)

\* The loop of _clockToLine: time advances by the off and the on length in
\* turn; a change at or before start sets line.start, a later one is added
\* to line.changes.
RECURSIVE ClockLoop(_, _, _, _, _, _)
ClockStep(d, on_length, off_length, time, active, line) ==
    ClockLoop(d, on_length, off_length, time, active,
              IF Le(time, R(d.start))
              THEN [line EXCEPT !.start = IntOf(active)]
              ELSE [line EXCEPT !.changes = Append(@, <<time, IntOf(active)>>)])

ClockLoop(d, on_length, off_length, time, active, line) ==
    IF ~Lt(time, R(d.end)) THEN line
    ELSE ClockStep(d, on_length, off_length,
                   Add(time, IF active THEN on_length ELSE off_length),
                   ~active, line)

\* line.changes.popitem(); return line
PopItem(line) ==
    IF line.changes = <<>>
    THEN [exc |-> RaiseAt("KeyError", "popitem")]
    ELSE [exc |-> NoException,
          value |-> [line EXCEPT !.changes = SubSeq(@, 1, Len(@) - 1)]]

\* _clockToLine from its first time on.  With a negative length the time
\* only falls, and the loop never ends once it is entered.
ClockLine(self, clock, on_length, time) ==
    IF Lt(clock.length, R(0)) /\ Lt(time, R(self._diagram.end))
    THEN [exc |-> RaiseAt("NoReturn", "_clockToLine")]
    ELSE PopItem(ClockLoop(self._diagram, on_length,
                           Sub(clock.length, on_length), time, FALSE,
                           Line(clock.name, IntV(0), <<>>).value))

\* Renderer._clockToLine: a new Line; the clock is only read.  A zero
\* length fails in the modulo.
_clockToLine(self, clock) ==
    IF clock.length.num = 0
    THEN [exc |-> RaiseAt("ZeroDivisionError", "_clockToLine")]
    ELSE ClockLine(self, clock, Mul(clock.duty, clock.length),
                   Neg(Mod(Neg(clock.offset), clock.length)))

\* Renderer._drawLine: one painter.drawLine with the pen it sets up.
_drawLine(self, x1, y1, x2, y2, width, dashed) ==
    [op |-> "drawLine", width |-> width, x1 |-> x1, y1 |-> y1, x2 |-> x2,
     y2 |-> y2, dashed |-> dashed, color |-> self._color,
     antialiasing |-> (x1 # x2 /\ y1 # y2)]

\* text.partition('/'): the part before the first "/", the "/" and the rest.
RECURSIVE Find(_, _, _)
Find(text, char, i) ==
    IF i > Len(text) THEN 0
    ELSE IF text[i] = char THEN i ELSE Find(text, char, i + 1)

PartitionAt(text, i) ==
    IF i = 0 THEN <<text, <<>>, <<>> >>
    ELSE <<SubSeq(text, 1, i - 1), <<"/">>, SubSeq(text, i + 1, Len(text))>>

Partition(text) == PartitionAt(text, Find(text, "/", 1))

\* The loop over the parts in _drawText: each part is drawn at the right
\* of the one before, with a line above it when it began with "!".
RECURSIVE DrawParts(_, _, _, _)
DrawPartAt(self, parts, i, rect, part, overline) ==
    << [op |-> "drawText", text |-> part, rect |-> rect] >>
    \o (IF overline
        THEN << _drawLine(self, rect.left, rect.top, Right(rect), rect.top,
                          1, FALSE) >>
        ELSE <<>>)
    \o DrawParts(self, parts, i + 1, [rect EXCEPT !.left = Right(rect)])

DrawPart(self, parts, i, rect, part, overline) ==
    DrawPartAt(self, parts, i,
               [rect EXCEPT !.width = MetricsWidth(self._font, part)],
               part, overline)

DrawParts(self, parts, i, rect) ==
    IF i > Len(parts) THEN <<>>
    ELSE IF Len(parts[i]) > 0 /\ parts[i][1] = "!"
    THEN DrawPart(self, parts, i, rect, Tail(parts[i]), TRUE)
    ELSE DrawPart(self, parts, i, rect, parts[i], FALSE)

\* The rectangle of a text of the given size around its centre.
TextRect(center_x, center_y, width, height) ==
    QRectF(Sub(center_x, Div(width, R(2))), Sub(center_y, Div(height, R(2))),
           width, height)

\* Renderer._drawText: the commands it issues.
_drawText(self, text, center_x, center_y, ignore_markup) ==
    IF ignore_markup
    THEN << [op |-> "drawText",
             text |-> text,
             rect |-> TextRect(center_x, center_y,
                               MetricsWidth(self._font, text),
                               MetricsHeight(self._font))] >>
    ELSE DrawParts(self, Partition(text), 1,
                   TextRect(center_x, center_y,
                            MetricsWidth(self._font, StripMarkup(text)),
                            MetricsHeight(self._font)))

\* range(first, end, step), step # 0
RECURSIVE Range(_, _, _)
Range(first, end, step) ==
    IF (step > 0 /\ first < end) \/ (step < 0 /\ first > end)
    THEN <<first>> \o Range(first + step, end, step)
    ELSE <<>>

\* str(n) for n >= 0
RECURSIVE Digits(_)
Digits(n) ==
    IF n < 10
    THEN << <<"0", "1", "2", "3", "4", "5", "6", "7", "8", "9">>[n + 1] >>
    ELSE Digits(n \div 10) \o Digits(n % 10)

\* The two rectangles of _drawFrame.
FrameRects(self) ==
    << [op |-> "drawRect", rect |-> self._outer_frame, color |-> self._color],
       [op |-> "drawRect", rect |-> self._inner_frame, color |-> self._color] >>

\* stops = [self._timeToPixels(i) for i in range(0, end, step)]
Stops(self, range) ==
    [i \in DOMAIN range |-> _timeToPixels(self, R(range[i]))]

\* The loop over the stops in _drawFrame: a dashed rule at each stop, and a
\* label T<index> right of every stop but the last.
RECURSIVE Columns(_, _, _, _)
Columns(self, stops, index, pixels_per_step) ==
    IF index > Len(stops) THEN <<>>
    ELSE << _drawLine(self, stops[index], Add(self._inner_frame.top, R(1)),
                      stops[index], Bottom(self._inner_frame), 1, TRUE) >>
         \o (IF index # Len(stops)
             THEN _drawText(self, <<"T">> \o Digits(index),
                      Add(stops[index], Div(pixels_per_step, R(2))),
                      Sub(self._inner_frame.top,
                          Mul(_getTextHeight(self._font), FloatV(1, 2))),
                      FALSE)
             ELSE <<>>)
         \o Columns(self, stops, index + 1, pixels_per_step)

\* "if self._diagram.step": None and 0 are false.
StepOf(d) == IF d.step = None THEN 0 ELSE d.step.v

\* Renderer._drawFrame: the two frames, and with a step the dashed rules
\* and the column labels.
_drawFrame(self) ==
    IF StepOf(self._diagram) = 0
    THEN [exc |-> NoException, cmds |-> FrameRects(self)]
    ELSE IF self._diagram.end - self._diagram.start = 0
    THEN [exc |-> RaiseAt("ZeroDivisionError", "_drawFrame"),
          cmds |-> FrameRects(self)]
    ELSE [exc |-> NoException,
          cmds |-> FrameRects(self) \o
              Columns(self,
                  Stops(self, Range(0, self._diagram.end,
                                    StepOf(self._diagram))),
                  1,
                  Mul(Div(self._inner_frame.width,
                          R(self._diagram.end - self._diagram.start)),
                      R(StepOf(self._diagram))))]

\* changes[time] = value on an ordered dictionary: a new key goes last, an
\* old key keeps its place.
DictSet(changes, time, value) ==
    IF time \in Times(changes)
    THEN [i \in DOMAIN changes |->
             IF changes[i][1] = time THEN <<time, value>> ELSE changes[i]]
    ELSE Append(changes, <<time, value>>)

\* last_time, last_value = changes.popitem(); changes[last_time] =
\* last_value; and the entry added at pad_time when the last change is
\* before the end of the diagram.
Padded(changes, end, pad_time) ==
    IF Lt(changes[Len(changes)][1], R(end))
    THEN DictSet(changes, pad_time, changes[Len(changes)][2])
    ELSE changes

\* diagram.end + diagram.delay / 2
PadTime(d) == Add(R(d.end), Div(R(d.delay), R(2)))

\* The padding done on line.changes itself, without the copy.
LineChangesInPlace(line, d) ==
    [line |-> IF line.changes # <<>>
              THEN [line EXCEPT !.changes = Padded(@, d.end, PadTime(d))]
              ELSE line,
     changes |-> IF line.changes # <<>>
                 THEN Padded(line.changes, d.end, PadTime(d))
                 ELSE << <<PadTime(d), line.start>> >>]

\* The changes _drawLineSignal iterates over, and the line as that leaves
\* it: the padding is done on a copy (changes = line.changes.copy()).
LineChanges(line, d) ==
    [line |-> line,
     changes |-> IF line.changes # <<>>
                 THEN Padded(line.changes, d.end, PadTime(d))
                 ELSE << <<PadTime(d), line.start>> >>]

\* The keys of the dictionary levels of _drawLineSignal.
HasLevel(value) == value \in {IntV(1), None, IntV(0)}

\* levels[value]
Level(frame, value) ==
    Add(frame.top,
        Mul(frame.height,
            IF value = IntV(1) THEN FloatV(3, 10)
            ELSE IF value = None THEN FloatV(1, 2) ELSE FloatV(7, 10)))

KeyError == RaiseAt("KeyError", "levels")

\* One iteration of the loop of _drawLineSignal, after the three calls of
\* _timeToPixels: the commands issued, and the KeyError of a value that
\* levels does not hold, raised when the arguments of a _drawLine call are
\* evaluated.
\* The branch "if last_value == model.UNKNOWN".
FromUnknown(self, frame, value, from, x, x_minus_delay) ==
    IF ~HasLevel(value)
    THEN [exc |-> KeyError,
          cmds |-> << _drawLine(self, from, Level(frame, IntV(0)),
                                x_minus_delay, Level(frame, IntV(0)), 2, FALSE),
                      _drawLine(self, from, Level(frame, IntV(1)),
                                x_minus_delay, Level(frame, IntV(1)), 2, FALSE) >>]
    ELSE [exc |-> NoException,
          cmds |-> << _drawLine(self, from, Level(frame, IntV(0)),
                                x_minus_delay, Level(frame, IntV(0)), 2, FALSE),
                      _drawLine(self, from, Level(frame, IntV(1)),
                                x_minus_delay, Level(frame, IntV(1)), 2, FALSE),
                      _drawLine(self, x_minus_delay, Level(frame, IntV(0)),
                                x, Level(frame, value), 2, FALSE),
                      _drawLine(self, x_minus_delay, Level(frame, IntV(1)),
                                x, Level(frame, value), 2, FALSE) >>]

\* The branch "elif value == last_value".
Flat(self, frame, value, from, x) ==
    IF ~HasLevel(value) THEN [exc |-> KeyError, cmds |-> <<>>]
    ELSE [exc |-> NoException,
          cmds |-> << _drawLine(self, from, Level(frame, value),
                                x, Level(frame, value), 2, FALSE) >>]

\* The branch "else".
Transition(self, frame, last_value, value, from, x, x_minus_delay) ==
    IF ~HasLevel(last_value) THEN [exc |-> KeyError, cmds |-> <<>>]
    ELSE IF ~HasLevel(value)
    THEN [exc |-> KeyError,
          cmds |-> << _drawLine(self, from, Level(frame, last_value),
                                x_minus_delay, Level(frame, last_value),
                                2, FALSE) >>]
    ELSE [exc |-> NoException,
          cmds |-> << _drawLine(self, from, Level(frame, last_value),
                                x_minus_delay, Level(frame, last_value),
                                2, FALSE),
                      _drawLine(self, x_minus_delay, Level(frame, last_value),
                                x, Level(frame, value), 2, FALSE) >>]

LineSegmentAt(self, frame, last_value, value, from, x, x_minus_delay) ==
    IF last_value = UNKNOWN
    THEN FromUnknown(self, frame, value, from, x, x_minus_delay)
    ELSE IF value = last_value THEN Flat(self, frame, value, from, x)
    ELSE Transition(self, frame, last_value, value, from, x, x_minus_delay)

\* One iteration of the loop of _drawLineSignal, from last = (time, value)
\* to the change to value at time (the delay already added).
LineSegment(self, frame, last, time, value) ==
    LineSegmentAt(self, frame, last[2], value,
                  Add(_timeToPixels(self, last[1]), R(1)),
                  _timeToPixels(self, time),
                  _timeToPixels(self, Sub(time, R(self._diagram.delay))))

RECURSIVE LineLoop(_, _, _, _, _, _)
LineJoin(self, frame, changes, i, time, acc, segment) ==
    LineLoop(self, frame, changes, i + 1, <<time, changes[i][2]>>,
             [exc |-> segment.exc, cmds |-> acc.cmds \o segment.cmds])

LineNext(self, frame, changes, i, time, last, acc) ==
    LineJoin(self, frame, changes, i, time, acc,
             LineSegment(self, frame, last, time, changes[i][2]))

\* The loop of _drawLineSignal over the padded changes.
LineLoop(self, frame, changes, i, last, acc) ==
    IF i > Len(changes) \/ acc.exc.exc # "None" THEN acc
    ELSE LineNext(self, frame, changes, i,
                  Add(changes[i][1], Div(R(self._diagram.delay), R(2))),
                  last, acc)

Drawn(loop, signal) ==
    [exc |-> loop.exc, signal |-> signal, cmds |-> loop.cmds]

DrawLinePadded(self, line, frame, padded) ==
    IF self._diagram.end - self._diagram.start = 0
    THEN [exc |-> RaiseAt("ZeroDivisionError", "_timeDeltaToPixels"),
          signal |-> padded.line, cmds |-> <<>>]
    ELSE Drawn(LineLoop(self, frame, padded.changes, 1,
                        <<Sub(R(self._diagram.start),
                              Div(R(self._diagram.delay), R(2))),
                          line.start>>,
                        [exc |-> NoException, cmds |-> <<>>]),
               padded.line)

\* Renderer._drawLineSignal: the exception, the commands issued and the
\* line as the call leaves it.
_drawLineSignal(self, line, frame) ==
    DrawLinePadded(self, line, frame, LineChanges(line, self._diagram))

\* The changes _drawBusSignal iterates over, and the bus as that leaves it:
\* the copy is taken first (changes = bus.changes.copy()).
BusChanges(bus, d) ==
    [changes |-> IF bus.changes # <<>>
                 THEN Padded(bus.changes, d.end, R(d.end))
                 ELSE << <<R(d.end), bus.start>> >>,
     bus |-> bus]

\* The places of one interval of a bus: g.x and g.next_x are its ends,
\* g.m the margin, g.opens and g.closes whether it has a point at the left
\* and at the right.
BusPlacesAt(frame, margin, x, edge, next_x) ==
    [x |-> x, edge |-> edge, next_x |-> next_x, m |-> margin,
     high |-> Add(frame.top, Mul(frame.height, FloatV(3, 10))),
     middle |-> Add(frame.top, Mul(frame.height, FloatV(1, 2))),
     low |-> Add(frame.top, Mul(frame.height, FloatV(7, 10))),
     opens |-> Lt(frame.left, x),
     closes |-> Lt(Sub(next_x, margin), edge)]

BusPlacesTo(self, frame, margin, x, edge, next_time) ==
    BusPlacesAt(frame, margin, x, edge,
                Add(Min(edge, _timeToPixels(self, next_time)), margin))

BusPlaces(self, frame, margin, x, next_time) ==
    BusPlacesTo(self, frame, margin, x, Sub(Right(frame), R(1)), next_time)

\* The points of the polygon.
BusPoints(g) ==
    (IF g.opens
     THEN << <<Add(g.x, g.m), g.low>>, <<Add(g.x, R(1)), g.middle>>,
             <<Add(g.x, g.m), g.high>> >>
     ELSE << <<Add(g.x, g.m), g.low>>, <<Add(g.x, R(1)), g.low>>,
             <<Add(g.x, R(1)), g.high>>, <<Add(g.x, g.m), g.high>> >>)
    \o (IF g.closes
        THEN << <<Sub(g.next_x, g.m), g.high>>, <<g.next_x, g.middle>>,
                <<Sub(g.next_x, g.m), g.low>> >>
        ELSE << <<Sub(Sub(g.next_x, g.m), R(1)), g.high>>,
                <<Sub(Sub(g.next_x, g.m), R(1)), g.low>> >>)

BusPolygon(g, brush) ==
    << [op |-> "drawConvexPolygon", brush |-> brush,
        points |-> BusPoints(g)] >>

\* The label of a bus value drawn with the markup of a signal name
\* (ignore_markup left at False).
BusLabelMarkup(self, frame, value, g) ==
    _drawText(self, value.s,
        Div(Add(Add(g.x, g.next_x), g.m), R(2)),
        Sub(Add(frame.top, Div(frame.height, R(2))),
            Div(Mul(_getTextHeight(self._font), Sub(TEXT_HEIGHT, R(1))),
                R(2))),
        FALSE)

\* self._drawText(value, center_x, center_y, ignore_markup=True)
BusLabel(self, frame, value, g) ==
    _drawText(self, value.s,
        Div(Add(Add(g.x, g.next_x), g.m), R(2)),
        Sub(Add(frame.top, Div(frame.height, R(2))),
            Div(Mul(_getTextHeight(self._font), Sub(TEXT_HEIGHT, R(1))),
                R(2))),
        TRUE)

\* The lines around the polygon.
BusOutline(self, g) ==
    (IF g.opens
     THEN << _drawLine(self, g.x, g.middle, Add(g.x, g.m), g.high, 2, FALSE),
             _drawLine(self, g.x, g.middle, Add(g.x, g.m), g.low, 2, FALSE) >>
     ELSE << _drawLine(self, Add(g.x, R(1)), g.high, Add(g.x, g.m), g.high,
                       2, FALSE),
             _drawLine(self, Add(g.x, R(1)), g.low, Add(g.x, g.m), g.low,
                       2, FALSE) >>)
    \o << _drawLine(self, Add(Add(g.x, g.m), R(1)), g.high,
                    Sub(g.next_x, g.m), g.high, 2, FALSE),
          _drawLine(self, Add(Add(g.x, g.m), R(1)), g.low,
                    Sub(g.next_x, g.m), g.low, 2, FALSE) >>
    \o (IF g.closes
        THEN << _drawLine(self, Sub(g.next_x, g.m), g.high, g.next_x,
                          g.middle, 2, FALSE),
                _drawLine(self, Sub(g.next_x, g.m), g.low, g.next_x,
                          g.middle, 2, FALSE) >>
        ELSE <<>>)

\* One iteration of the loop of _drawBusSignal: a floating value is a line,
\* UNKNOWN and a string are a polygon, anything else is a TypeError.
BusShape(self, frame, value, g) ==
    IF value = None
    THEN [exc |-> NoException,
          cmds |-> << _drawLine(self, Add(g.x, R(1)), g.middle,
                                Min(g.edge, g.next_x), g.middle, 2, FALSE) >>,
          next_x |-> g.next_x]
    ELSE IF value = UNKNOWN
    THEN [exc |-> NoException,
          cmds |-> BusPolygon(g, "UNKNOWN_BACKGROUND") \o BusOutline(self, g),
          next_x |-> g.next_x]
    ELSE IF value.t = "str"
    THEN [exc |-> NoException,
          cmds |-> BusPolygon(g, "background")
                   \o BusLabel(self, frame, value, g) \o BusOutline(self, g),
          next_x |-> g.next_x]
    ELSE [exc |-> RaiseAt("TypeError", "bus value"), cmds |-> <<>>,
          next_x |-> g.next_x]

BusSegment(self, frame, margin, x, value, next_time) ==
    BusShape(self, frame, value, BusPlaces(self, frame, margin, x, next_time))

RECURSIVE BusLoop(_, _, _, _, _, _, _)
BusJoin(self, frame, margin, changes, i, acc, segment) ==
    BusLoop(self, frame, margin, changes, i + 1,
            <<segment.next_x, changes[i][2]>>,
            [exc |-> segment.exc, cmds |-> acc.cmds \o segment.cmds])

\* The loop of _drawBusSignal over the padded changes; last = (x, value).
BusLoop(self, frame, margin, changes, i, last, acc) ==
    IF i > Len(changes) \/ acc.exc.exc # "None" THEN acc
    ELSE BusJoin(self, frame, margin, changes, i, acc,
                 BusSegment(self, frame, margin, last[1], last[2],
                            changes[i][1]))

DrawBusPadded(self, bus, frame, padded) ==
    IF self._diagram.end - self._diagram.start = 0
    THEN [exc |-> RaiseAt("ZeroDivisionError", "_timeDeltaToPixels"),
          signal |-> padded.bus, cmds |-> <<>>]
    ELSE Drawn(BusLoop(self, frame,
                       _timeDeltaToPixels(self,
                           Div(R(self._diagram.delay), R(2))),
                       padded.changes, 1,
                       <<_timeToPixels(self, R(self._diagram.start)),
                         bus.start>>,
                       [exc |-> NoException, cmds |-> <<>>]),
               padded.bus)

\* Renderer._drawBusSignal: the exception, the commands issued and the bus
\* as the call leaves it.
_drawBusSignal(self, bus, frame) ==
    DrawBusPadded(self, bus, frame, BusChanges(bus, self._diagram))

\* The dispatch on the type of the signal in _drawSignals.
DrawSignal(self, signal, frame) ==
    IF signal.type = "Line" THEN _drawLineSignal(self, signal, frame)
    ELSE IF signal.type = "Bus" THEN _drawBusSignal(self, signal, frame)
    ELSE [exc |-> RaiseAt("TypeError", "signal type"), signal |-> signal,
          cmds |-> <<>>]

\* self._drawText(signal.name, ...) at the left of the band.
NameLabel(self, signal, frame) ==
    _drawText(self, signal.name,
        Sub(frame.left,
            Div(_getTextWidth(self._font, signal.name \o <<" ", " ">>), R(2))),
        Div(Add(frame.top, Bottom(frame)), R(2)),
        FALSE)

\* The loop of _drawSignals from signal i on, with frame the band of signal
\* i.  acc holds the exception, the commands, the (signal, frame) pairs
\* handed to the draw routines and the signals as the calls leave them.
RECURSIVE SignalBands(_, _, _, _)
BandDrawn(self, i, frame, acc, signal, line, call) ==
    SignalBands(self, i + 1,
        [frame EXCEPT !.top = Add(frame.top, frame.height)],
        [exc |-> call.exc,
         signals |-> [acc.signals EXCEPT ![i] =
                         IF signal.type = "Clock" THEN signal
                         ELSE call.signal],
         cmds |-> acc.cmds \o call.cmds \o
                  (IF call.exc.exc = "None" THEN NameLabel(self, line, frame)
                   ELSE <<>>),
         bands |-> Append(acc.bands, [signal |-> line, frame |-> frame])])

BandLine(self, i, frame, acc, signal, line) ==
    IF line.exc.exc # "None" THEN [acc EXCEPT !.exc = line.exc]
    ELSE BandDrawn(self, i, frame, acc, signal, line.value,
                   DrawSignal(self, line.value, frame))

BandOf(self, i, frame, acc, signal) ==
    IF signal.type = "Clock"
    THEN BandLine(self, i, frame, acc, signal, _clockToLine(self, signal))
    ELSE BandLine(self, i, frame, acc, signal,
                  [exc |-> NoException, value |-> signal])

SignalBands(self, i, frame, acc) ==
    IF i > Len(self._diagram.signals) \/ acc.exc.exc # "None" THEN acc
    ELSE BandOf(self, i, frame, acc, self._diagram.signals[i])

\* A _drawSignals that leaves out frame.setHeight: every band is as high
\* as the inner frame.
_drawSignalsUndivided(self) ==
    SignalBands(self, 1, self._inner_frame,
        [exc |-> NoException, signals |-> self._diagram.signals, cmds |-> <<>>,
         bands |-> <<>>])

\* Renderer._drawSignals: the inner frame is cut into one band per signal,
\* from the top, in the order of diagram.signals.
_drawSignals(self) ==
    SignalBands(self, 1,
        [self._inner_frame EXCEPT
            !.height = Div(@, R(Len(self._diagram.signals)))],
        [exc |-> NoException, signals |-> self._diagram.signals, cmds |-> <<>>,
         bands |-> <<>>])

\* painter.end() as the last statement of the try block, which an
\* exception skips.
painterEndOnReturn(p, exc) ==
    IF exc.exc # "None" THEN p ELSE [p EXCEPT !.active = FALSE]

\* The finally clause of Renderer.draw: painter.end() however the try
\* block ended.
painterEnd(p, exc) == [p EXCEPT !.active = FALSE]

\* setFont, setRenderHint and fillRect, the first commands of the try block.
Fill(self) ==
    << [op |-> "setFont", font |-> self._font],
       [op |-> "fillRect",
        rect |-> QRectF(R(0), R(0), R(self.image.width), R(self.image.height)),
        color |-> self._background] >>

\* The end of Renderer.draw: the image holds what was painted, the painter
\* is ended, the exception of the try block goes on.
Painted(self, p, d, frame, signals) ==
    [painter |-> painterEnd([p EXCEPT !.active = TRUE,
                                      !.bands = signals.bands,
                                      !.begun = @ + 1],
                            signals.exc),
     diagram |-> [d EXCEPT !.signals = signals.signals],
     exc |-> signals.exc,
     self |-> [self EXCEPT !.image.pixels =
                  Fill(self) \o frame.cmds \o signals.cmds]]

\* The try block of Renderer.draw after _drawFrame.
Paint(self, p, d, frame) ==
    IF frame.exc.exc # "None"
    THEN Painted(self, p, d, frame,
                 [exc |-> frame.exc, signals |-> d.signals, cmds |-> <<>>,
                  bands |-> <<>>])
    ELSE Painted(self, p, d, frame, _drawSignals(self))

\* Renderer.draw with painter.begin, and the try block, ahead of
\* _loadDiagram's assertion.
DrawLoadedBegun(p, d, load) ==
    Paint(load.self, p, d,
          IF load.exc.exc # "None" THEN [exc |-> load.exc, cmds |-> <<>>]
          ELSE _drawFrame(load.self))

\* Renderer.draw after _loadDiagram: painter.begin follows a load that did
\* not raise.
DrawLoaded(p, d, load) ==
    IF load.exc.exc # "None"
    THEN [painter |-> p, diagram |-> d, exc |-> load.exc, self |-> load.self]
    ELSE Paint(load.self, p, d, _drawFrame(load.self))

\* Renderer.draw: the renderer, the painter and the diagram after the call,
\* and the exception it raised.
draw(self, p, d) ==
    IF d = None
    THEN [painter |-> p, diagram |-> d,
          exc |-> RaiseAt("ValueError", "draw"), self |-> self]
    ELSE DrawLoaded(p, d, _loadDiagram(self, d))

\* Renderer.save: "if self.image" is true of every QImage.
save(self, written) ==
    IF self.image # None
    THEN IF written THEN [exc |-> NoException, file |-> self.image]
         ELSE [exc |-> RaiseAt("IOError", "save"), file |-> None]
    ELSE [exc |-> RaiseAt("RuntimeError", "save"), file |-> None]

-----------------------------------------------------------------------------
(* src/gui.py                                                              *)
(*                                                                         *)
(* The Editor window is a record of its fields and of the state of its     *)
(* menu actions: live_preview_action and delayed_preview_action hold       *)
(* whether the action is checked, export_action and print_action whether   *)
(* it is enabled, timers the ids of the timers of the window that run.     *)

\* The ids QObject.startTimer hands out.
MaxTimers == 2

TimerIds == 1 .. MaxTimers

\* The value of time.time() that recordAction stores.
ActionTime == [t |-> "time"]

\* Editor.__init__ with setupMenu: Live Editing is checked, Export and
\* Print are disabled, no timer runs.
NewEditor ==
    [saved |-> TRUE, live_preview_action |-> TRUE,
     delayed_preview_action |-> FALSE, preview_mode |-> "PREVIEW_INSTANT",
     preview_timer |-> None, timers |-> {}, last_action_time |-> None,
     export_action |-> FALSE, print_action |-> FALSE]

\* A killTimer that leaves the timer running.
killTimerNot(timers, id) == timers

\* self.killTimer(id)
killTimer(timers, id) == timers \ {id}

\* toggleLivePreview(False): the elif branch.
LiveOff(e) ==
    IF e.preview_mode = "PREVIEW_INSTANT"
    THEN [e EXCEPT !.preview_mode = "PREVIEW_MANUAL"]
    ELSE e

\* toggleDelayedPreview(False): the elif branch, with "if
\* self.preview_timer: self.killTimer(self.preview_timer)".
DelayedOff(e) ==
    IF e.preview_mode = "PREVIEW_DELAYED"
    THEN [e EXCEPT !.preview_mode = "PREVIEW_MANUAL",
                   !.timers = IF e.preview_timer # None
                              THEN killTimer(@, e.preview_timer.v)
                              ELSE @]
    ELSE e

\* live_preview_action.setChecked(False): toggled(bool) is emitted, and the
\* slot called, when the state of the action changes.
LiveUnchecked(e) ==
    IF e.live_preview_action
    THEN LiveOff([e EXCEPT !.live_preview_action = FALSE])
    ELSE e

\* delayed_preview_action.setChecked(False)
DelayedUnchecked(e) ==
    IF e.delayed_preview_action
    THEN DelayedOff([e EXCEPT !.delayed_preview_action = FALSE])
    ELSE e

\* Editor.toggleLivePreview(is_on)
toggleLivePreview(e, is_on) ==
    IF is_on
    THEN [DelayedUnchecked(e) EXCEPT !.preview_mode = "PREVIEW_INSTANT"]
    ELSE LiveOff(e)

\* Editor.toggleDelayedPreview(is_on); id is what startTimer returns.
toggleDelayedPreview(e, is_on, id) ==
    IF is_on
    THEN [LiveUnchecked(e) EXCEPT !.preview_mode = "PREVIEW_DELAYED",
                                  !.preview_timer = IntV(id),
                                  !.timers = @ \cup {id}]
    ELSE DelayedOff(e)

\* What self.renderer.draw(diagram) leaves in the canvas c: the renderer,
\* its painter, the diagram, and how the call ended.
CanvasDrew(c, call) ==
    [painter |-> call.painter, diagram |-> call.diagram,
     outcome |-> [exc |-> call.exc, call |-> "draw"],
     drawn |-> [image |-> call.exc.exc = "None",
                ever |-> c.drawn.ever \/ call.exc.exc = "None",
                failed |-> c.drawn.failed \/ call.exc.exc # "None",
                calls |-> c.drawn.calls + 1],
     exc |-> call.exc,
     self |-> call.self]

\* Canvas.loadDiagram(None), and the else branch of loadDiagram:
\* self.renderer.image = None.
Unloaded(c) ==
    [c EXCEPT !.exc = NoException, !.self.image = None,
              !.drawn.image = FALSE]

\* Canvas.loadDiagram(diagram): "if diagram and diagram.signals" draws,
\* anything else unloads.  The set of one element has the call evaluated
\* once.
loadDiagram(c, d) ==
    IF d # None /\ d.signals # <<>>
    THEN CHOOSE drew \in { CanvasDrew(c, call) :
                              call \in {draw(c.self, c.painter, d)} } : TRUE
    ELSE Unloaded(c)

\* The inner try of drawPreview: the else clause enables Export and Print,
\* the except clause unloads the diagram.  A draw that does not return
\* leaves the handler where it is.
PreviewLoaded(e, loaded) ==
    IF loaded.exc.exc = "None"
    THEN [editor |-> [e EXCEPT !.export_action = TRUE,
                               !.print_action = TRUE],
          exc |-> NoException,
          canvas |-> loaded]
    ELSE IF loaded.exc.exc = "NoReturn"
    THEN [editor |-> e, exc |-> loaded.exc, canvas |-> loaded]
    ELSE [editor |-> e, exc |-> NoException,
          canvas |-> Unloaded(loaded)]

\* The outer try of drawPreview: a TimingSyntaxError is reported, any other
\* exception of the parser leaves the handler.
PreviewParsed(e, c, parsed) ==
    IF parsed.exc = "TimingSyntaxError"
    THEN [editor |-> e, exc |-> NoException, canvas |-> c]
    ELSE IF parsed.exc # "None"
    THEN [editor |-> e, exc |-> parsed, canvas |-> c]
    ELSE CHOOSE p \in { PreviewLoaded(e, loaded) :
                           loaded \in {loadDiagram(c, parsed.value)} } : TRUE

\* Editor.drawPreview on the text of the editor: the editor and the canvas
\* after it, and the exception that leaves it.  The parser is a function
\* of the text alone: result[text] is what parseTimingDescription(text)
\* returns, computed once for every text the editor can hold.
drawPreview(e, c, text) ==
    PreviewParsed([e EXCEPT !.export_action = FALSE,
                            !.print_action = FALSE],
                  c, result[text])

\* The slots of textChanged(): markUnsaved and drawAutoPreview.
textChanged(e, c, text) ==
    IF e.preview_mode = "PREVIEW_INSTANT"
    THEN drawPreview([e EXCEPT !.saved = FALSE], c, text)
    ELSE [editor |-> [e EXCEPT !.saved = FALSE], exc |-> NoException,
          canvas |-> c]

\* editor.clear() and editor.setPlainText(code): the slots run when the
\* signal is emitted.
TextSet(e, c, text, emits) ==
    IF emits THEN textChanged(e, c, text)
    ELSE [editor |-> e, exc |-> NoException, canvas |-> c]

-----------------------------------------------------------------------------
(* The texts the parser and the renderer are run on.                       *)

Name(text) == << text >>

\* The lines typed into the parser: every kind of header, and body lines
\* that are right in one kind of block and wrong in another.
Lines ==
    { Header("style", <<>>), Header("time", <<>>),
      Header("line", Name(<<"a">>)), Header("bus", Name(<<"b">>)),
      Header("clock", Name(<<"c">>)), Header("foo", <<>>),
      Body("margin", "=", "500"), Body("width", "=", "30"),
      Body("start", "=", "0"), Body("start", "=", "foo"),
      Body("5", "->", "1"), Body("length", "=", "4"),
      Body("offset", "=", "0"), Body("duty", "=", "2") }

Texts == UNION { [1 .. n -> Lines] : n \in 0 .. MaxLines }

\* The descriptions that are rendered: a time block or none, then up to
\* MaxSignals signal blocks, of every type and in every order.
TimeBlocks ==
    { <<>>,
      << Header("time", <<>>), Body("start", "=", "-10"),
         Body("end", "=", "10"), Body("step", "=", "5") >> }

SignalBlocks ==
    { << Header("line", Name(<<"a">>)), Body("start", "=", "0"),
         Body("5", "->", "1") >>,
      << Header("line", Name(<<"r", "s", "t">>)), Body("start", "=", "?") >>,
      << Header("bus", Name(<<"d", "/", "!", "q">>)), Body("start", "=", "'x'"),
         Body("5", "->", "Z") >>,
      << Header("clock", Name(<<"c", "k">>)), Body("length", "=", "30"),
         Body("offset", "=", "1"), Body("duty", "=", "0.25") >> }

RECURSIVE Concat(_)
Concat(blocks) ==
    IF blocks = <<>> THEN <<>> ELSE blocks[1] \o Concat(Tail(blocks))

RenderTexts ==
    { time \o Concat(blocks) :
        time \in TimeBlocks,
        blocks \in UNION { [1 .. n -> SignalBlocks] : n \in 0 .. MaxSignals } }

\* The descriptions of one clock under a time block.
ClockTexts ==
    { << Header("time", <<>>), Body("start", "=", start),
         Body("end", "=", end), Header("clock", Name(<<"c", "k">>)),
         Body("offset", "=", offset), Body("length", "=", length),
         Body("duty", "=", duty) >> :
        start \in {"-10", "0", "2", "5"}, end \in {"5", "10"},
        offset \in {"0", "1", "2", "5"}, length \in {"2", "4"},
        duty \in {"0.25", "0.5", "0.75"} }

\* The lines of signal blocks typed into the parser: the lines that are
\* dropped, a signal header without a name, change lines at equal and at
\* different times, and every kind of value token.
BlockLines ==
    { Blank, Comment,
      Header("clock", <<>>), Header("clock", Name(<<"c">>)),
      Header("line", Name(<<"a">>)), Header("bus", Name(<<"b">>)),
      Body("0", "->", "1"), Body("5", "->", "0"), Body("5.0", "->", "foo"),
      Body("5", "->", "?"), Body("5", "->", "Z"), Body("5", "->", "'x'"),
      Body("start", "=", "?"), Body("start", "=", "'x'"),
      Body("start", "=", "1"), Body("start", "=", "'x"),
      Body("length", "=", "4"), Body("offset", "=", "0"),
      Body("duty", "=", "0.5") }

BlockTexts == UNION { [1 .. n -> BlockLines] : n \in 0 .. MaxLines }

\* The change lines of line and bus blocks: equal times written alike and
\* differently, another time, and values right and wrong for either type.
ChangeLines ==
    { Body("5", "->", "0"), Body("5.0", "->", "foo"), Body("5", "->", "Z"),
      Body("0", "->", "1"), Body("5", "->", "?") }

\* A line block and a bus block with a start value and these change lines.
ChangeBlocks(changes) ==
    { << Header("line", Name(<<"a">>)), Body("start", "=", "0") >> \o changes,
      << Header("bus", Name(<<"b">>)), Body("start", "=", "'x'") >> \o changes }

\* The blocks ahead of the block looked at: none, or an accepted line or
\* bus block with a change at time 5.
FirstBlocks ==
    { <<>>,
      << Header("line", Name(<<"a">>)), Body("start", "=", "0"),
         Body("5", "->", "0") >>,
      << Header("bus", Name(<<"b">>)), Body("start", "=", "'x'"),
         Body("5", "->", "Z") >> }

\* The texts of one such block, or none, and a line or bus block of up to
\* MaxChanges change lines.
ChangeTexts ==
    { first \o block :
        first \in FirstBlocks,
        block \in UNION { ChangeBlocks(changes) :
                    changes \in UNION { [1 .. m -> ChangeLines] :
                                           m \in 0 .. MaxChanges } } }

-----------------------------------------------------------------------------
(* The constructor calls the structs of src/model.py are tried with.       *)

\* TimingDiagram(width, height, margin): margins below, at and above half
\* the width and half the height.
DiagramCalls ==
    { [width |-> width, height |-> height, margin |-> margin,
       call |-> "TimingDiagram"] :
        width \in {20, 30, 40, 800}, height \in {20, 40, 600},
        margin \in {0, 10, 15, 20, 21, 300} }

\* The values of a changes dictionary: those of a line, those of a bus and
\* an integer that is neither.
ChangeValues == { IntV(0), None, UNKNOWN, StrV(<<"x">>), IntV(42) }

\* The changes dictionaries of up to MaxChanges items: the keys of a dict
\* differ, and the items come in the order of insertion.
ChangeDicts ==
    { changes \in UNION { [1 .. n -> {R(0), R(5)} \X ChangeValues] :
                            n \in 0 .. MaxChanges } :
        Cardinality(Times(changes)) = Len(changes) }

LineCalls ==
    { [start |-> start, changes |-> changes, call |-> "Line"] :
        start \in {IntV(0), IntV(1), None, UNKNOWN, StrV(<<"x">>)},
        changes \in ChangeDicts }

BusCalls ==
    { [start |-> start, changes |-> changes, call |-> "Bus"] :
        start \in {None, UNKNOWN, StrV(<<"x">>), IntV(42)},
        changes \in ChangeDicts }

ClockCalls ==
    { [offset |-> R(0), length |-> R(4), duty |-> duty, call |-> "Clock"] :
        duty \in {R(0), FloatV(1, 4), FloatV(1, 2), R(1)} }

\* The call evaluated: the struct or the exception raised.
Construct(call) ==
    IF call.call = "TimingDiagram"
    THEN TimingDiagram(call.width, call.height, call.margin, 12,
                       "Times New Roman", 16777215, 0, 0, 100, None, 10, <<>>)
    ELSE IF call.call = "Line"
    THEN Line(<<"a">>, call.start, call.changes)
    ELSE IF call.call = "Bus"
    THEN Bus(<<"b">>, call.start, call.changes)
    ELSE Clock(<<"c">>, call.offset, call.length, call.duty)

-----------------------------------------------------------------------------
(* The state machine.                                                      *)

NotCalled == [exc |-> "NotCalled"]
NoCall == [exc |-> NoException, call |-> "none"]

InitRenderer ==
    /\ result = NotCalled
    /\ renderer = NewRenderer
    /\ painter = [active |-> FALSE, bands |-> <<>>, begun |-> 0]
    /\ diagram = None
    /\ outcome = NoCall
    /\ saved = None
    /\ drawn = [image |-> FALSE, ever |-> FALSE, failed |-> FALSE,
                calls |-> 0]
    /\ expansion = None
    /\ editor = None

\* A text of up to MaxLines lines, not parsed yet.
Init == code \in Texts /\ InitRenderer

\* parseTimingDescription(code)
Parse ==
    /\ result = NotCalled
    /\ result' = parseTimingDescription(code)
    /\ UNCHANGED <<code, renderer, painter, diagram, outcome, saved, drawn,
                   expansion, editor>>

Next == Parse

Spec == Init /\ [][Next]_vars

\* What a call of Renderer.draw leaves behind.  loaded: the call got as
\* far as _loadDiagram, which replaces the image.
DrawCalled(call, loaded) ==
    /\ drawn.calls < MaxDraws
    /\ renderer' = call.self
    /\ painter' = call.painter
    /\ diagram' = call.diagram
    /\ outcome' = [exc |-> call.exc, call |-> "draw"]
    /\ saved' = None
    /\ drawn' = [image |-> IF loaded THEN call.exc.exc = "None"
                           ELSE drawn.image,
                 ever |-> drawn.ever \/ call.exc.exc = "None",
                 failed |-> drawn.failed \/ call.exc.exc # "None",
                 calls |-> drawn.calls + 1]

DrawParsed(text, parsed) ==
    /\ parsed.exc = "None"
    /\ code' = text
    /\ result' = parsed
    /\ DrawCalled(draw(renderer, painter, parsed.value), TRUE)
    /\ UNCHANGED <<expansion, editor>>

\* renderer.draw(parseTimingDescription(text)) on the one Renderer.
Draw(text) == DrawParsed(text, parseTimingDescription(text))

\* renderer.draw(None)
DrawNone ==
    /\ DrawCalled(draw(renderer, painter, None), FALSE)
    /\ UNCHANGED <<code, result, expansion, editor>>

SaveCalled(call) ==
    /\ outcome' = [exc |-> call.exc, call |-> "save"]
    /\ saved' = call.file
    /\ UNCHANGED <<code, result, renderer, painter, diagram, drawn, expansion,
                   editor>>

\* renderer.save(filepath); the file system takes the image or refuses it.
Save == \E written \in BOOLEAN : SaveCalled(save(renderer, written))

InitRender == code = <<>> /\ InitRenderer

NextRender == (\E text \in RenderTexts : Draw(text)) \/ DrawNone \/ Save

SpecRender == InitRender /\ [][NextRender]_vars

\* One clock description, drawn once.
InitClock == code \in ClockTexts /\ InitRenderer

DrawCode == outcome = NoCall /\ Draw(code)

NextClock == DrawCode

SpecClock == InitClock /\ [][NextClock]_vars

\* The descriptions of one bus: names and values with and without the
\* overline markup, and a change that is shown or lies after end.
LabelTexts ==
    { << Header("bus", Name(name)), Body("start", "=", start),
         Body(time, "->", value) >> :
        name \in { <<"b">>, <<"!", "b">>, <<"d", "/", "!", "q">> },
        start \in {"'x'", "'!y'", "'x/!y'", "Z"},
        time \in {"5", "500"},
        value \in {"'x'", "'!y'", "'x/!y'", "Z"} }

\* One bus description, drawn once.
InitLabels == code \in LabelTexts /\ InitRenderer

SpecLabels == InitLabels /\ [][NextClock]_vars

\* A text of signal blocks of up to MaxLines lines, not parsed yet.
InitBlocks == code \in BlockTexts /\ InitRenderer

SpecBlocks == InitBlocks /\ [][Next]_vars

\* A text of line and bus blocks with change lines, not parsed yet.
InitChanges == code \in ChangeTexts /\ InitRenderer

SpecChanges == InitChanges /\ [][Next]_vars

\* A constructor call of src/model.py, not evaluated yet.
InitModel ==
    /\ code \in DiagramCalls \cup LineCalls \cup BusCalls \cup ClockCalls
    /\ InitRenderer

\* The call is evaluated.
Constructed ==
    /\ result = NotCalled
    /\ result' = Construct(code)
    /\ UNCHANGED <<code, renderer, painter, diagram, outcome, saved, drawn,
                   expansion, editor>>

NextModel == Constructed

SpecModel == InitModel /\ [][NextModel]_vars

\* The iterations of the loop of _clockToLine that are followed.
MaxSteps == 8

\* The descriptions of one clock whose length is negative, zero or
\* positive, under a time block.
ExpandTexts ==
    { << Header("time", <<>>), Body("start", "=", start),
         Body("end", "=", end), Header("clock", Name(<<"c", "k">>)),
         Body("offset", "=", offset), Body("length", "=", length),
         Body("duty", "=", duty) >> :
        start \in {"-10", "0"}, end \in {"5", "10"},
        offset \in {"0", "1", "5"}, length \in {"-10", "0", "4", "10"},
        duty \in {"0.25", "0.5"} }

InitExpand == code \in ExpandTexts /\ InitRenderer

\* _clockToLine(clock) up to its loop: on_length, off_length, the new
\* line, time and active; a zero length fails in the modulo.
Entered(clock, on_length) ==
    IF clock.length.num = 0
    THEN [exc |-> RaiseAt("ZeroDivisionError", "_clockToLine"),
          at |-> "raise"]
    ELSE [exc |-> NoException,
          line |-> Line(clock.name, IntV(0), <<>>).value,
          time |-> Neg(Mod(Neg(clock.offset), clock.length)),
          at |-> "while", active |-> FALSE,
          on_length |-> on_length,
          off_length |-> Sub(clock.length, on_length), steps |-> 0]

\* The renderer expands the first signal of the parsed diagram, a clock.
EnterLoop ==
    /\ result.exc = "None"
    /\ expansion = None
    /\ result.value.signals # <<>>
    /\ result.value.signals[1].type = "Clock"
    /\ expansion' = Entered(result.value.signals[1],
                            Mul(result.value.signals[1].duty,
                                result.value.signals[1].length))
    /\ UNCHANGED <<code, result, renderer, painter, diagram, outcome, saved,
                   drawn, editor>>

\* The body of the loop with time already advanced.
Iterated(d, l, time) ==
    [l EXCEPT !.time = time, !.active = ~l.active, !.steps = @ + 1,
              !.line = IF Le(time, R(d.start))
                       THEN [@ EXCEPT !.start = IntOf(~l.active)]
                       ELSE [@ EXCEPT !.changes =
                                 Append(@, <<time, IntOf(~l.active)>>)]]

\* One iteration of "while time < self._diagram.end".
Iterate ==
    /\ expansion # None
    /\ expansion.at = "while"
    /\ Lt(expansion.time, R(result.value.end))
    /\ expansion.steps < MaxSteps
    /\ expansion' = Iterated(result.value, expansion,
                             Add(expansion.time,
                                 IF expansion.active
                                 THEN expansion.on_length
                                 ELSE expansion.off_length))
    /\ UNCHANGED <<code, result, renderer, painter, diagram, outcome, saved,
                   drawn, editor>>

\* The loop is over: line.changes.popitem() and return line.
Left(l, popped) ==
    IF popped.exc.exc # "None"
    THEN [l EXCEPT !.exc = popped.exc, !.at = "raise"]
    ELSE [l EXCEPT !.line = popped.value, !.at = "return"]

LeaveLoop ==
    /\ expansion # None
    /\ expansion.at = "while"
    /\ ~Lt(expansion.time, R(result.value.end))
    /\ expansion' = Left(expansion, PopItem(expansion.line))
    /\ UNCHANGED <<code, result, renderer, painter, diagram, outcome, saved,
                   drawn, editor>>

NextExpand == Parse \/ EnterLoop \/ Iterate \/ LeaveLoop

SpecExpand == InitExpand /\ [][NextExpand]_vars

\* The texts of the editor: none, a line that is drawn, a time block
\* without a signal, a header the parser refuses, and a line whose start
\* value the renderer fails on.
EditorTexts ==
    { <<>>,
      << Header("line", Name(<<"a">>)), Body("start", "=", "0"),
         Body("5", "->", "1") >>,
      << Header("time", <<>>), Body("end", "=", "10") >>,
      << Header("foo", <<>>) >>,
      << Header("line", Name(<<"r", "s", "t">>)), Body("start", "=", "?") >> }

\* The window after Editor.__init__: no text, a canvas with a new Renderer.
\* result is the parser as a table over the texts of the editor.
InitEditor ==
    /\ code = <<>>
    /\ result = [text \in EditorTexts |-> parseTimingDescription(text)]
    /\ renderer = NewRenderer
    /\ painter = [active |-> FALSE, bands |-> <<>>, begun |-> 0]
    /\ diagram = None
    /\ outcome = NoCall
    /\ saved = None
    /\ drawn = [image |-> FALSE, ever |-> FALSE, failed |-> FALSE,
                calls |-> 0]
    /\ expansion = None
    /\ editor = NewEditor

\* self.canvas with its renderer, as a handler finds it.
Canvas ==
    [painter |-> painter, diagram |-> diagram, outcome |-> outcome,
     drawn |-> drawn, exc |-> NoException, self |-> renderer]

\* A handler returns, or an exception leaves it, with the editor and the
\* canvas of p and the given text in the editor.
Handled(p, text) ==
    /\ p.exc.exc # "NoReturn"
    /\ p.canvas.drawn.calls <= MaxDraws
    /\ code' = text
    /\ editor' = p.editor
    /\ renderer' = p.canvas.self
    /\ painter' = p.canvas.painter
    /\ diagram' = p.canvas.diagram
    /\ outcome' = p.canvas.outcome
    /\ drawn' = p.canvas.drawn
    /\ UNCHANGED <<result, saved, expansion>>

\* The user checks or unchecks Live Editing: toggled(bool) calls
\* toggleLivePreview.
ToggleLive ==
    /\ editor' = toggleLivePreview(
                     [editor EXCEPT !.live_preview_action = ~@],
                     ~editor.live_preview_action)
    /\ UNCHANGED <<code, result, renderer, painter, diagram, outcome, saved,
                   drawn, expansion>>

\* The user checks or unchecks Delayed Editing; startTimer returns the id
\* of a timer that does not run yet.
ToggleDelayed ==
    /\ \E id \in TimerIds \ editor.timers :
          editor' = toggleDelayedPreview(
                        [editor EXCEPT !.delayed_preview_action = ~@],
                        ~editor.delayed_preview_action, id)
    /\ UNCHANGED <<code, result, renderer, painter, diagram, outcome, saved,
                   drawn, expansion>>

\* A key is pressed in the editor: textChanged() when the text changes,
\* then keyPressed() and recordAction.
Typed(p, text) ==
    Handled([p EXCEPT !.editor.last_action_time = ActionTime], text)

Type(text) ==
    \E p \in {TextSet(editor, Canvas, text, text # code)} : Typed(p, text)

\* Render > Refresh
Refresh == \E p \in {drawPreview(editor, Canvas, code)} : Handled(p, code)

\* Editor.timerEvent once the delay has passed: last_action_time is reset
\* when drawPreview returns.
TimerPreviewed(p) ==
    Handled(IF p.exc.exc = "None"
            THEN [p EXCEPT !.editor.last_action_time = None]
            ELSE p,
            code)

\* A timer of the window fires.
TimerEvent(passed) ==
    /\ editor.timers # {}
    /\ IF /\ editor.preview_mode = "PREVIEW_DELAYED"
          /\ editor.last_action_time # None
          /\ passed
       THEN \E p \in {drawPreview(editor, Canvas, code)} : TimerPreviewed(p)
       ELSE UNCHANGED vars

\* Editor.new after editor.clear(): markSaved and canvas.loadDiagram(None).
Cleared(p) ==
    Handled([editor |-> [p.editor EXCEPT !.saved = TRUE], exc |-> NoException,
             canvas |-> Unloaded(p.canvas)],
            <<>>)

\* Code > New when isSafeToReset returns True: the text is saved or the
\* user has it discarded.  emits is whether clear() emits textChanged()
\* for a text that was empty already.
New(emits) ==
    /\ code # <<>> => emits
    /\ \E p \in {TextSet(editor, Canvas, <<>>, emits)} : Cleared(p)

\* Editor.open after editor.setPlainText(code): markSaved and drawPreview.
Opened(p, text) ==
    \E previewed \in {drawPreview([p.editor EXCEPT !.saved = TRUE],
                                  p.canvas, text)} :
        Handled(previewed, text)

\* Code > Open of a file that holds text, when isSafeToReset returns True.
Open(text, emits) ==
    /\ code # text => emits
    /\ \E p \in {TextSet(editor, Canvas, text, emits)} : Opened(p, text)

\* Render > Export with a path chosen: self.canvas.renderer.save(path).
Export ==
    /\ editor.export_action
    /\ \E written \in BOOLEAN : SaveCalled(save(renderer, written))

NextEditor ==
    \/ ToggleLive
    \/ ToggleDelayed
    \/ \E text \in EditorTexts : Type(text)
    \/ Refresh
    \/ \E passed \in BOOLEAN : TimerEvent(passed)
    \/ \E emits \in BOOLEAN : New(emits)
    \/ \E text \in EditorTexts, emits \in BOOLEAN : Open(text, emits)
    \/ Export

SpecEditor == InitEditor /\ [][NextEditor]_vars

-----------------------------------------------------------------------------
(* Properties of the parser, under Spec.                                   *)

\* C1: parseTimingDescription returns a TimingDiagram or raises one
\* TimingSyntaxError, and no other kind of exception escapes it, whatever
\* the properties of a clock block and the value tokens of a bus block.
C1_OnlyTimingSyntaxError ==
    result # NotCalled => result.exc \in {"None", "TimingSyntaxError"}

\* An error of a line that no later line can cause or cure: every kind but
\* a block left empty and a signal block left without a property.
OffendingAt(parsed, number) ==
    /\ parsed.exc = "TimingSyntaxError"
    /\ parsed.line_number = number
    /\ parsed.error_type \notin {"empty_block", "missing_prop"}

\* Line number of text holds an invalid construct: the text cut after that
\* line is refused at that line.
Offending(text, number) ==
    OffendingAt(parseTimingDescription(SubSeq(text, 1, number)), number)

\* C2: the error parseTimingDescription raises refers to the first
\* offending line: no line with a smaller line number holds an invalid
\* construct, be it a grouping error or an error inside a block.
C2_FirstOffendingLine ==
    (result # NotCalled /\ result.exc = "TimingSyntaxError")
        => \A number \in 1 .. (result.line_number - 1) :
               ~Offending(code, number)

\* C3: every TimingDiagram parseTimingDescription returns has
\* margin < width / 2 and margin < height / 2, whatever the style block
\* sets.
C3_MarginWithinHalf ==
    (result # NotCalled /\ result.exc = "None")
        => /\ 2 * result.value.margin < result.value.width
           /\ 2 * result.value.margin < result.value.height

-----------------------------------------------------------------------------
(* Properties of the renderer, under SpecRender and SpecClock.             *)

\* The last call was a draw of a parsed diagram; diagram is that diagram as
\* the call left it.
DrewDiagram == outcome.call = "draw" /\ diagram # None

\* C4: drawing a parsed diagram with at least one signal and start < end
\* raises no KeyError or TypeError on a signal value: _drawLineSignal looks
\* up a level for 0, 1 and floating only, _drawBusSignal sees floating,
\* Unknown or a string only.
C4_ValuesInDomain ==
    (DrewDiagram /\ Len(diagram.signals) > 0 /\ diagram.start < diagram.end)
        => outcome.exc \notin {KeyError, RaiseAt("TypeError", "bus value"),
                               RaiseAt("TypeError", "signal type")}

\* The periodic waveform of a clock at time: 0 for the first
\* (1 - duty) * length of every period, 1 for the rest, the periods
\* starting at offset modulo length.
ClockValueAt(clock, time) ==
    IF Lt(Mod(Sub(time, clock.offset), clock.length),
          Sub(clock.length, Mul(clock.duty, clock.length)))
    THEN IntV(0) ELSE IntV(1)

\* The value of a line at time: that of its last change at or before time,
\* its start value when there is none.
LineValueAt(line, time) ==
    IF \E i \in DOMAIN line.changes : Le(line.changes[i][1], time)
    THEN line.changes[CHOOSE i \in DOMAIN line.changes :
                         /\ Le(line.changes[i][1], time)
                         /\ \A j \in DOMAIN line.changes :
                                Le(line.changes[j][1], time) => j <= i][2]
    ELSE line.start

\* C5: the line _clockToLine returns for a clock has the periodic waveform
\* of the clock over the whole of [start, end); it is compared at every
\* half unit of time.
C5_ClockWaveform ==
    (DrewDiagram /\ painter.bands # <<>>)
        => \A n \in 2 * diagram.start .. 2 * diagram.end - 1 :
               LineValueAt(painter.bands[1].signal, Frac(n, 2))
                   = ClockValueAt(diagram.signals[1], Frac(n, 2))

\* C6: Renderer.draw does not change the diagram it is given: after the
\* call its settings, its signals and every signal's fields are those the
\* parser returned.
C6_DiagramNotMutated == DrewDiagram => diagram = result.value

\* C6 witness: a drawn diagram with a line whose last change is before
\* the end, which _drawLineSignal pads.
C6_Witness ==
    /\ DrewDiagram
    /\ outcome.exc = NoException
    /\ \E i \in DOMAIN diagram.signals :
           /\ diagram.signals[i].type = "Line"
           /\ diagram.signals[i].changes # <<>>
           /\ Lt(diagram.signals[i].changes[
                     Len(diagram.signals[i].changes)][1], R(diagram.end))

\* C7: after any sequence of draw calls, returning or raising, the painter
\* is not active: painter.end follows every painter.begin.
C7_PainterReleased == ~painter.active

\* C7 witness: a draw call that raised inside the try block, after
\* painter.begin.
C7_Witness ==
    /\ DrewDiagram
    /\ outcome.exc = KeyError
    /\ painter.bands # <<>>

\* Renderer().draw(d) on a Renderer of its own.
FreshDraw(d) ==
    draw(NewRenderer, [active |-> FALSE, bands |-> <<>>, begun |-> 0], d)

SameDrawing(fresh) ==
    /\ renderer.image = fresh.self.image
    /\ outcome.exc = fresh.exc

\* C8: whatever draw calls came before on the same Renderer, a draw of a
\* diagram issues the commands, and ends the way, a new Renderer would:
\* two draws of one diagram issue identical commands.
C8_SameCommands == DrewDiagram => SameDrawing(FreshDraw(result.value))

\* C8 witness: a draw that returned after an earlier draw call on the same
\* Renderer that raised.
C8_Witness ==
    /\ DrewDiagram
    /\ outcome.exc = NoException
    /\ drawn.calls = 2
    /\ drawn.failed
    /\ renderer.image.pixels # <<>>

\* C9: save raises RuntimeError unless a draw call has returned normally,
\* and what it writes is the image of a draw call that returned normally,
\* never the image a draw call that raised left behind.
C9_SaveAfterDraw ==
    outcome.call = "save"
        => /\ ~drawn.ever => outcome.exc = RaiseAt("RuntimeError", "save")
           /\ saved # None => drawn.image

\* The signal block headers of a text, in the order of the text.
IsSignalHeader(line) ==
    line.kind = "header" /\ line.block_type \in {"line", "bus", "clock"}

SignalHeaders(text) == SelectSeq(text, IsSignalHeader)

SignalType(block_type) ==
    IF block_type = "line" THEN "Line"
    ELSE IF block_type = "bus" THEN "Bus" ELSE "Clock"

\* The i-th signal of the diagram is the i-th signal block of the text.
Declared(signals, headers) ==
    /\ Len(signals) = Len(headers)
    /\ \A i \in DOMAIN signals :
           /\ signals[i].name = headers[i].block_args[1]
           /\ signals[i].type = SignalType(headers[i].block_type)

\* The i-th band drawn is that of the i-th signal, and is the i-th of
\* count equal slices of the inner frame from the top.
Banded(bands, signals, inner, count) ==
    \A i \in DOMAIN bands :
        /\ i <= count
        /\ bands[i].signal.name = signals[i].name
        /\ bands[i].frame.left = inner.left
        /\ bands[i].frame.width = inner.width
        /\ bands[i].frame.height = Div(inner.height, R(count))
        /\ bands[i].frame.top =
               Add(inner.top, Div(Mul(R(i - 1), inner.height), R(count)))
        /\ (i > 1 => bands[i].frame.top = Bottom(bands[i - 1].frame))
        /\ (i = count => Bottom(bands[i].frame) = Bottom(inner))

\* C10: the i-th signal block of the text is the i-th signal of the parsed
\* diagram and, when the diagram has signals and so is painted, is drawn
\* in the i-th band from the top of the inner frame; the bands are
\* disjoint and a draw that returns covers the inner frame with them.
C10_DeclarationOrder ==
    DrewDiagram
        => /\ Declared(diagram.signals, SignalHeaders(code))
           /\ (Len(diagram.signals) > 0
                   => Banded(painter.bands, diagram.signals,
                             renderer._inner_frame, Len(diagram.signals)))
           /\ (outcome.exc = NoException
                   => Len(painter.bands) = Len(diagram.signals))

\* C10 witness: a draw that returned for two signals of different types.
C10_Witness ==
    /\ DrewDiagram
    /\ outcome.exc = NoException
    /\ Len(painter.bands) = 2
    /\ painter.bands[1].signal.type # painter.bands[2].signal.type
    /\ diagram.signals[1].type = "Clock"

\* This step is a call of Renderer.draw without a diagram or with a diagram
\* of no signals.
DrawsNoSignal ==
    /\ outcome'.call = "draw"
    /\ drawn'.calls = drawn.calls + 1
    /\ diagram' = None \/ Len(diagram'.signals) = 0

\* The call draws nothing: it leaves the image it found, or the new image
\* of _loadDiagram without a command.
DrawsNothing ==
    IF diagram' = None THEN renderer' = renderer
    ELSE renderer'.image.pixels = <<>>

\* C20: Renderer.draw fails (raises, drawing nothing) when the diagram is
\* absent or has zero signals, and in both cases the failure happens before
\* the painter begins painting.
C20_FailsBeforeBegin ==
    [][DrawsNoSignal
           => /\ outcome'.exc.exc # "None"
              /\ DrawsNothing
              /\ painter' = painter]_vars

\* A draw of a diagram without signals has raised on a Renderer whose
\* painter has begun once, in an earlier call.
C20_Witness ==
    /\ outcome.call = "draw"
    /\ diagram # None /\ Len(diagram.signals) = 0
    /\ outcome.exc.exc = "AssertionError"
    /\ drawn.calls = 2 /\ painter.begun = 1

-----------------------------------------------------------------------------
(* Further properties of the parser, under Spec.                           *)

\* Line i of the numbered lines is a well-formed header of a time, style,
\* clock, line or bus block and no body line follows it.
EmptyHeader(numbered_lines, i) ==
    /\ numbered_lines[i].line.kind = "header"
    /\ \/ /\ numbered_lines[i].line.block_type \in {"time", "style"}
          /\ numbered_lines[i].line.block_args = <<>>
       \/ /\ numbered_lines[i].line.block_type \in {"clock", "line", "bus"}
          /\ numbered_lines[i].line.block_args # <<>>
    /\ \/ i = Len(numbered_lines)
       \/ numbered_lines[i + 1].line.kind = "header"

\* The parser refused the text with empty_block, or with an error of a
\* line before this one.
EmptyBlockOrEarlier(number) ==
    /\ result.exc = "TimingSyntaxError"
    /\ result.error_type = "empty_block" \/ result.line_number < number

EmptyBlocksRefused(numbered_lines) ==
    \A i \in DOMAIN numbered_lines :
        EmptyHeader(numbered_lines, i)
            => EmptyBlockOrEarlier(numbered_lines[i].number)

\* C12: every block header (time, style, clock, line or bus) followed by no
\* body line before the next header or the end of input makes parsing fail
\* with an empty_block error, however many blocks of the same kind came
\* earlier in the text.
C12_EmptyBlock ==
    result # NotCalled => EmptyBlocksRefused(NumberedLines(code, 1))

-----------------------------------------------------------------------------
(* Properties of the parser, under SpecBlocks.                             *)

\* The text was parsed and refused with this error at this line number.
Refused(error_type, number) ==
    /\ result # NotCalled
    /\ result.exc = "TimingSyntaxError"
    /\ result.error_type = error_type
    /\ result.line_number = number

\* C11 as stated: parsing the text "clock:\n0->1\n" yields a clock_change
\* error on line 2.
C11_ClockChange ==
    (code = << Header("clock", <<>>), Body("0", "->", "1") >>
        /\ result # NotCalled)
        => Refused("clock_change", 2)

\* A clock header with a name, followed by one change line.
NamedClockChange ==
    /\ Len(code) = 2
    /\ code[1].kind = "header" /\ code[1].block_type = "clock"
    /\ code[1].block_args # <<>>
    /\ code[2].kind = "body" /\ code[2].op = "->"

\* C11 as amended: parsing the text "clock c:\n0->1\n", whose clock header
\* carries the name the header requires, yields a clock_change error on
\* line 2, carrying that line.
C11_NamedClockChange ==
    (NamedClockChange /\ result # NotCalled)
        => Refused("clock_change", 2) /\ result.line = code[2]

C11_Witness ==
    /\ code = << Header("clock", Name(<<"c">>)), Body("0", "->", "1") >>
    /\ Refused("clock_change", 2)

\* The number of the last header among the first i lines of the text, or 0.
RECURSIVE LastHeader(_, _)
LastHeader(text, i) ==
    IF i = 0 THEN 0
    ELSE IF text[i].kind = "header" THEN i
    ELSE LastHeader(text, i - 1)

\* The last line of the text is a start= line or a change line.
EndsInValueLine(text) ==
    /\ text # <<>>
    /\ text[Len(text)].kind = "body"
    /\ \/ text[Len(text)].op = "->"
       \/ text[Len(text)].op = "=" /\ text[Len(text)].lhs = "start"

\* The last line of the text lies in a block of this type.
EndsInBlock(text, block_type, header) ==
    /\ header > 0
    /\ text[header].block_type = block_type
    /\ text[header].block_args # <<>>

\* The text of one block is accepted, or refused only for what a further
\* line may add: a body line of a block left empty or a property of a
\* signal left unset.
Unfinished(parsed) ==
    \/ parsed.exc = "None"
    \/ /\ parsed.exc = "TimingSyntaxError"
       /\ parsed.error_type \in {"empty_block", "missing_prop"}

\* The blocks before the last header are accepted, and so are the lines of
\* the last block before the last line of the text.
CleanBefore(text, header) ==
    /\ parseTimingDescription(SubSeq(text, 1, header - 1)).exc = "None"
    /\ Unfinished(parseTimingDescription(SubSeq(text, header, Len(text) - 1)))

SameTime(raw, other) ==
    _parseFloat(raw, None).value = _parseFloat(other, None).value

\* Line j of the text, after the header, is a change line at the time of
\* the last line.
EarlierChange(text, header, j) ==
    /\ j > header
    /\ text[j].kind = "body" /\ text[j].op = "->"
    /\ SameTime(text[j].lhs, text[Len(text)].lhs)

\* The last line is a change line at the time of an earlier change line of
\* its block.
RepeatsTime(text, header) ==
    /\ text[Len(text)].op = "->"
    /\ \E j \in 1 .. (Len(text) - 1) : EarlierChange(text, header, j)

\* Z, ? or a valid quoted string literal.
BusToken(token) == token \in {"Z", "?"} \/ Has(StringLiterals, token)

\* The last line of the text is the first value line of a bus block that
\* the parser gets to with such a token, at a time not used before.
BusValueLine(text) ==
    /\ EndsInValueLine(text)
    /\ EndsInBlock(text, "bus", LastHeader(text, Len(text)))
    /\ CleanBefore(text, LastHeader(text, Len(text)))
    /\ ~RepeatsTime(text, LastHeader(text, Len(text)))

\* C13: in a bus block the right-hand side of a start= or -> line is
\* accepted only if it is Z, ? or a valid quoted string literal; every
\* other token, bare words, numbers and other non-string literals included,
\* fails with a bus_value TimingSyntaxError carrying that line.
C13_BusValue ==
    (result # NotCalled /\ BusValueLine(code))
        => IF BusToken(code[Len(code)].rhs)
           THEN result.exc = "None" \/ Refused("missing_prop", Len(code))
           ELSE Refused("bus_value", Len(code))
                    /\ result.line = code[Len(code)]

\* The property keys the lines of a block supply.
SuppliedKeys(lines) ==
    { lines[j].line.lhs : j \in { i \in DOMAIN lines : lines[i].line.op = "=" } }

\* The body lines of the block are processed without error.
LinesProcessed(block) ==
    SignalLoop([exc |-> NoException, changes |-> <<>>, properties |-> <<>>],
               block.type, block.lines, 1).exc.exc = "None"

\* The style lines, the time lines and the signal blocks before block k are
\* accepted, so that the parser gets to the end of block k if its lines are.
ParsedUpTo(blocks, k) ==
    /\ blocks.exc.exc = "None"
    /\ TimeLoop(StyleLoop(DefaultDiagram, blocks.style_lines, 1),
                blocks.time_lines, 1).exc = "None"
    /\ \A j \in 1 .. (k - 1) : ParseSignal(blocks.signal_blocks[j]).exc = "None"

\* Block k lacks a required key or has one too many, after lines that are
\* all processed.
KeysDiffer(blocks, k) ==
    /\ ParsedUpTo(blocks, k)
    /\ LinesProcessed(blocks.signal_blocks[k])
    /\ SuppliedKeys(blocks.signal_blocks[k].lines)
           # SIGNAL_PROPERTIES[blocks.signal_blocks[k].type]

LastLine(block) == block.lines[Len(block.lines)]

MissingPropAtLastLine(blocks) ==
    \A k \in DOMAIN blocks.signal_blocks :
        KeysDiffer(blocks, k)
            => /\ Refused("missing_prop",
                          LastLine(blocks.signal_blocks[k]).number)
               /\ result.line = LastLine(blocks.signal_blocks[k]).line
               /\ code[result.line_number] = result.line

\* C14: once all body lines of a signal block are processed without error,
\* a set of supplied property keys that differs from the required set of
\* the block's kind (clock: length, offset, duty; line and bus: start) makes
\* parsing fail with missing_prop, whose line number and text are those of
\* the block's last body line.
C14_MissingProp ==
    result # NotCalled
        => MissingPropAtLastLine(_exractBlocks(NumberedLines(code, 1)))

\* A clock block that supplies length and offset and no duty.
C14_Witness ==
    /\ code = << Header("clock", Name(<<"c">>)), Body("length", "=", "4"),
                 Body("offset", "=", "0") >>
    /\ Refused("missing_prop", 3)

\* The value a token of a line block stands for.
LineToken(token) ==
    IF token = "0" THEN IntV(0)
    ELSE IF token = "1" THEN IntV(1)
    ELSE IF token = "Z" THEN None
    ELSE UNKNOWN

\* The signal of the last block of the text holds the value of the text's
\* last line: as its start, or as the value of the change at that time.
ValueStored(line, signal) ==
    IF line.op = "="
    THEN signal.start = LineToken(line.rhs)
    ELSE \E i \in DOMAIN signal.changes :
            /\ signal.changes[i][1] = _parseFloat(line.lhs, None).value
            /\ signal.changes[i][2] = LineToken(line.rhs)

\* The text is accepted with that value in its last signal, or refused only
\* because its last block has no start value yet.
LineValueAccepted(text) ==
    \/ /\ result.exc = "None"
       /\ ValueStored(text[Len(text)],
                      result.value.signals[Len(result.value.signals)])
    \/ Refused("missing_prop", Len(text))

\* What becomes of the last line of the text, by its token.
LineValueMapped(text) ==
    IF text[Len(text)].rhs \in {"0", "1", "Z"}
    THEN LineValueAccepted(text)
    ELSE IF text[Len(text)].rhs = "?"
    THEN IF text[Len(text)].op = "=" THEN LineValueAccepted(text)
         ELSE Refused("line_unknown", Len(text))
    ELSE Refused("line_value", Len(text))

\* The last line of the text is the first value line of a line block that
\* the parser gets to, at a time not used before.
LineValueLine(text) ==
    /\ EndsInValueLine(text)
    /\ EndsInBlock(text, "line", LastHeader(text, Len(text)))
    /\ CleanBefore(text, LastHeader(text, Len(text)))
    /\ ~RepeatsTime(text, LastHeader(text, Len(text)))

\* A Line whose start and change values are in their domains and whose
\* changes are in strictly ascending order of time.
LineInDomain(signal) ==
    /\ signal.start \in {IntV(0), IntV(1), UNKNOWN, None}
    /\ \A i \in DOMAIN signal.changes :
          signal.changes[i][2] \in {IntV(0), IntV(1), None}
    /\ \A i \in 1 .. (Len(signal.changes) - 1) :
          Lt(signal.changes[i][1], signal.changes[i + 1][1])

LinesInDomain(signals) ==
    \A k \in DOMAIN signals :
        signals[k].type = "Line" => LineInDomain(signals[k])

\* C16: in a line block the value tokens 0 and 1 become the integers 0 and
\* 1, Z becomes floating (None) and ? becomes Unknown; any other token
\* fails with line_value; ? is accepted only as the start value, a change
\* to ? failing with line_unknown.  Hence every Line of a parsed diagram has
\* its start in {0, 1, Unknown, floating} and its change values in
\* {0, 1, floating}, iterated in strictly ascending order of time.
C16_LineValues ==
    result # NotCalled
        => /\ LineValueLine(code) => LineValueMapped(code)
           /\ result.exc = "None" => LinesInDomain(result.value.signals)

\* A line that starts Unknown and whose changes to 0 at time 5 and to 1 at
\* time 0 are stored with time 0 first.
C16_Witness ==
    /\ code = << Header("line", Name(<<"a">>)), Body("start", "=", "?"),
                 Body("5", "->", "0"), Body("0", "->", "1") >>
    /\ result.exc = "None"
    /\ result.value.signals[1].start = UNKNOWN
    /\ result.value.signals[1].changes
           = << <<R(0), IntV(1)>>, <<R(5), IntV(0)>> >>

\* C17: every TimingSyntaxError carries a line number that is the 1-based
\* position, in the original text and counting the blank and comment lines
\* that were dropped, of the line whose trimmed text the error carries.
C17_LineNumber ==
    (result # NotCalled /\ result.exc = "TimingSyntaxError")
        => /\ result.line_number \in 1 .. Len(code)
           /\ code[result.line_number] = result.line

\* An error of the fourth line of a text whose first and third lines are
\* dropped.
C17_Witness ==
    /\ code = << Blank, Header("clock", Name(<<"c">>)), Comment,
                 Body("0", "->", "1") >>
    /\ Refused("clock_change", 4)

-----------------------------------------------------------------------------
(* Properties of the parser, under SpecChanges.                            *)

\* The last line of the text is a change line of a line or bus block, and
\* the parser gets to it.
ChangeLineReached(text, header) ==
    /\ text # <<>>
    /\ text[Len(text)].kind = "body" /\ text[Len(text)].op = "->"
    /\ EndsInBlock(text, "line", header) \/ EndsInBlock(text, "bus", header)
    /\ CleanBefore(text, header)

\* The last line fails with change_dupe if its time is that of an earlier
\* change line of its block, and not with change_dupe if it is not.
DupeRefused(text, header) ==
    IF RepeatsTime(text, header)
    THEN Refused("change_dupe", Len(text)) /\ result.line = text[Len(text)]
    ELSE ~(result.exc = "TimingSyntaxError"
               /\ result.error_type = "change_dupe")

\* C15: within one line or bus block a change line whose time is
\* numerically equal to the time of an earlier change line of the same
\* block fails with change_dupe carrying the later line's number, whatever
\* its right-hand side is; equal change times in different signal blocks
\* are not an error.
C15_ChangeDupe ==
    (result # NotCalled
        /\ ChangeLineReached(code, LastHeader(code, Len(code))))
        => DupeRefused(code, LastHeader(code, Len(code)))

\* A change at time 5 in a line block, then in a bus block a change at
\* time 5, accepted, and a change at time 5.0 to a bare word, refused as a
\* duplicate.
C15_Witness ==
    /\ code = << Header("line", Name(<<"a">>)), Body("start", "=", "0"),
                 Body("5", "->", "0"),
                 Header("bus", Name(<<"b">>)), Body("start", "=", "'x'"),
                 Body("5", "->", "Z"), Body("5.0", "->", "foo") >>
    /\ Refused("change_dupe", 7)

-----------------------------------------------------------------------------
(* Properties of the structs, under SpecModel.                             *)

\* C18: constructing a TimingDiagram fails whenever margin >= width / 2 or
\* margin >= height / 2, the boundary case where margin is exactly half the
\* width or half the height included.
C18_MarginBoundary ==
    (result # NotCalled /\ code.call = "TimingDiagram"
        /\ (2 * code.margin >= code.width \/ 2 * code.margin >= code.height))
        => result.exc # "None"

\* The changes hold this value.
Holds(changes, value) == \E i \in DOMAIN changes : changes[i][2] = value

\* C19: the structs reject out-of-domain signal values at construction: a
\* Line whose start is "x" fails, and a Bus whose changes hold the value 42
\* (neither a string nor floating or Unknown) fails.
C19_ValuesRejected ==
    result # NotCalled
        => /\ (code.call = "Line" /\ code.start = StrV(<<"x">>))
                  => result.exc # "None"
           /\ (code.call = "Bus" /\ Holds(code.changes, IntV(42)))
                  => result.exc # "None"

-----------------------------------------------------------------------------
(* Properties of the clock expansion, under SpecExpand.                    *)

\* C21: rendering terminates for every diagram the parser returns: the loop
\* of _clockToLine reaches a time >= end after finitely many iterations for
\* every clock the parser accepts.  The duty of an accepted clock lies
\* strictly between 0 and 1, so on_length and off_length have the sign of
\* length, and the loop ends exactly when each iteration raises time.
C21_LoopAdvances ==
    [][Iterate => Lt(expansion.time, expansion'.time)]_vars

-----------------------------------------------------------------------------
(* Further properties of the renderer, under SpecRender.                   *)

\* The x coordinates of a command that draws a signal: the lines of width 2
\* of _drawLineSignal and _drawBusSignal, and the points of the polygons.
SignalXs(cmd) ==
    IF cmd.op = "drawLine"
    THEN (IF cmd.width = 2 THEN {cmd.x1, cmd.x2} ELSE {})
    ELSE IF cmd.op = "drawConvexPolygon"
    THEN { cmd.points[i][1] : i \in DOMAIN cmd.points }
    ELSE {}

WithinFrame(frame, x) == Le(frame.left, x) /\ Le(x, Right(frame))

\* C22: every x coordinate the renderer emits for a Line or a Bus signal,
\* the ends of its lines and the points of its polygons, lies between the
\* left and the right of the inner frame.
C22_WithinInnerFrame ==
    renderer.image # None =>
        \A i \in DOMAIN renderer.image.pixels :
            \A x \in SignalXs(renderer.image.pixels[i]) :
                WithinFrame(renderer._inner_frame, x)

\* The frame of the loaded diagram has been drawn with a step.
ColumnsDrawn ==
    /\ renderer.image # None
    /\ renderer.image.pixels # <<>>
    /\ StepOf(renderer._diagram) > 0
    /\ renderer._diagram.end - renderer._diagram.start # 0

\* The multiples of step from start up to end, end left out.
Multiples(d) ==
    { t \in d.start .. d.end - 1 : t % StepOf(d) = 0 }

\* The positions of the dashed vertical rules of the image.
IsRule(cmd) ==
    cmd.op = "drawLine" /\ cmd.dashed /\ cmd.x1 = cmd.x2

RuleXs(pixels) ==
    { pixels[i].x1 : i \in { j \in DOMAIN pixels : IsRule(pixels[j]) } }

\* C23: when step is set, a dashed vertical rule is drawn at the pixel
\* position of every multiple of step t with start <= t < end, whatever the
\* sign of start, and at no other position.
C23_RulesAtMultiples ==
    ColumnsDrawn =>
        RuleXs(renderer.image.pixels) =
            { _timeToPixels(renderer, R(t)) :
                t \in Multiples(renderer._diagram) }

\* The columns of the image: each rule opens one, which ends at the next
\* rule or, for the last, at end.
ColumnCount(pixels) ==
    Cardinality({ j \in DOMAIN pixels : IsRule(pixels[j]) })

\* The texts T<number> drawn on the image.
ColumnLabels(pixels) ==
    { pixels[i].text :
        i \in { j \in DOMAIN pixels :
                  /\ pixels[j].op = "drawText"
                  /\ \E k \in 1 .. Len(pixels) :
                        pixels[j].text = <<"T">> \o Digits(k) } }

\* C24: when step is set, each column into which the diagram is split, the
\* last one that ends at end included, is labeled T# with # its 1-based
\* number, so there are as many labels as columns.
C24_EveryColumnLabeled ==
    ColumnsDrawn =>
        ColumnLabels(renderer.image.pixels) =
            { <<"T">> \o Digits(k) :
                k \in 1 .. ColumnCount(renderer.image.pixels) }

-----------------------------------------------------------------------------
(* Properties of the labels, under SpecLabels.                             *)

\* The last call drew a diagram of one bus and returned.
BusDrawn ==
    /\ DrewDiagram
    /\ outcome.exc = NoException
    /\ Len(diagram.signals) = 1
    /\ diagram.signals[1].type = "Bus"

\* The strings _drawBusSignal draws a label for: the start value and the
\* value of every change but the last of the changes it iterates over.
ShownIn(start, changes) ==
    { v \in {start} \cup { changes[i][2] : i \in 1 .. Len(changes) - 1 } :
        v.t = "str" }

ShownValues(bus, d) == ShownIn(bus.start, BusChanges(bus, d).changes)

\* The tokens of a text that the markup gives a line above.
MarkedIn(parts) ==
    Cardinality({ i \in DOMAIN parts :
                    Len(parts[i]) > 0 /\ parts[i][1] = "!" })

MarkedTokens(text) == MarkedIn(Partition(text))

\* The lines _drawText draws above a token.
Overlines(pixels) ==
    { j \in DOMAIN pixels :
        /\ pixels[j].op = "drawLine"
        /\ pixels[j].width = 1
        /\ ~pixels[j].dashed }

TextDrawn(pixels, text) ==
    \E i \in DOMAIN pixels :
        pixels[i].op = "drawText" /\ pixels[i].text = text

\* C25: the overline markup applies to bus value labels as well as to
\* signal names: a bus value whose string, or whose token after the "/",
\* starts with "!" is drawn without the "!" and with a line above that
\* token.
C25_ValuesOverlined ==
    BusDrawn =>
        \A v \in ShownValues(diagram.signals[1], diagram) :
            MarkedTokens(v.s) > 0 =>
                /\ ~TextDrawn(renderer.image.pixels, v.s)
                /\ Cardinality(Overlines(renderer.image.pixels))
                       > MarkedTokens(diagram.signals[1].name)

\* C25, amended: the overline markup applies to signal names only: every
\* bus value label is drawn as written, its "!" included, and the lines
\* above a token are those of the signal name.
C25_ValuesAsWritten ==
    BusDrawn =>
        /\ \A v \in ShownValues(diagram.signals[1], diagram) :
               TextDrawn(renderer.image.pixels, v.s)
        /\ Cardinality(Overlines(renderer.image.pixels))
               = MarkedTokens(diagram.signals[1].name)

\* C25 witness: a bus with an overlined name is drawn with a value label
\* that starts with "!" and one whose second token does.
C25_Witness ==
    /\ BusDrawn
    /\ MarkedTokens(diagram.signals[1].name) > 0
    /\ StrV(<<"!", "y">>) \in ShownValues(diagram.signals[1], diagram)
    /\ StrV(<<"x", "/", "!", "y">>)
           \in ShownValues(diagram.signals[1], diagram)

-----------------------------------------------------------------------------
(* Properties of the editor window, under SpecEditor.                      *)

\* C26: after any sequence of toggling Live Editing and Delayed Editing at
\* most one of the two is checked, preview_mode is INSTANT exactly when
\* Live is checked, DELAYED exactly when Delayed is checked and MANUAL when
\* neither is, and a preview timer runs exactly when preview_mode is
\* DELAYED: never two timers, never one left running in another mode.
C26_ModeFollowsActions ==
    /\ ~(editor.live_preview_action /\ editor.delayed_preview_action)
    /\ editor.preview_mode = "PREVIEW_INSTANT" <=> editor.live_preview_action
    /\ editor.preview_mode = "PREVIEW_DELAYED"
           <=> editor.delayed_preview_action
    /\ editor.preview_mode = "PREVIEW_MANUAL"
           <=> (~editor.live_preview_action
                /\ ~editor.delayed_preview_action)
    /\ Cardinality(editor.timers)
           = (IF editor.preview_mode = "PREVIEW_DELAYED" THEN 1 ELSE 0)
    /\ editor.preview_mode = "PREVIEW_DELAYED"
           => editor.timers = {editor.preview_timer.v}

\* C26 witness: Live Editing is checked again after the window has been in
\* delayed mode and has started its timer.
C26_Witness ==
    /\ editor.preview_mode = "PREVIEW_INSTANT"
    /\ editor.preview_timer # None
    /\ editor.timers = {}

\* C27: whenever Export and Print are enabled the renderer of the canvas
\* holds an image, after any sequence of edits, previews, New and Open, so
\* that Export never reaches Renderer.save without an image.
C27_ExportNeedsImage ==
    /\ (editor.export_action \/ editor.print_action)
           => renderer.image # None
    /\ outcome.call = "save"
           => outcome.exc # RaiseAt("RuntimeError", "save")

====
